---- MODULE Spec2Model ----
(***************************************************************************)
(* Model of the programs of vladeemer_labs.  The two lab4 arena           *)
(* allocators:                                                             *)
(*   src/lab4/alloc_free_list/free_list.c   first-fit free-list allocator  *)
(*   src/lab4/alloc_mc_kusick/mc_kusick.c   power-of-two buddy allocator   *)
(* and, each under a specification of its own further down:                *)
(*   src/lab2/bitonic.c     the two barriers and the parallel bitonic sort *)
(*   src/lab2/main.c        the Monte-Carlo simulation                     *)
(*   src/lab3/sum-*-shm.c   the shared-memory pipeline                     *)
(*                                                                         *)
(* Addresses are absolute byte addresses (naturals).  Type sizes are those *)
(* of the LP64 ABI the labs are built for (8-byte pointers and size_t,     *)
(* 4-byte int, alignof(max_align_t) = 16).                                 *)
(*                                                                         *)
(* A block header lives in memory at the block's first byte.  The model    *)
(* keeps the headers of the blocks that currently partition the arena;     *)
(* the header of a block that coalescing absorbed becomes payload bytes of *)
(* the absorbing block (the code never reads it again, and the caller may  *)
(* overwrite it), so it is dropped from the header map.                    *)
(*                                                                         *)
(* size_t and uintptr_t values are naturals: every arena and request of    *)
(* the model is at least the descriptor plus one block and far below 2^64, *)
(* so no subtraction or addition of the code wraps.                        *)
(***************************************************************************)
EXTENDS Integers, Sequences, FiniteSets, TLC

VARIABLES
    fl_base,      \* Allocator.base       (free_list.h)
    fl_size,      \* Allocator.size
    fl_free_list, \* Allocator.free_list: address of the first free header
    fl_hdr,       \* memory: header address -> block_header
    fl_live,      \* pointers the caller holds (returned by alloc, not freed)
    fl_hist,      \* the caller's last two calls, most recent first
    fl_run,       \* the caller's calls so far, while they are alloc(s) of one size s
    bd_A,         \* what the buddy allocator_create returned (NULL or memory)
    bd_base,      \* Allocator.base       (mc_kusick.h)
    bd_size,      \* Allocator.size
    bd_min_order, \* Allocator.min_order
    bd_max_order, \* Allocator.max_order
    bd_free_lists,\* Allocator.free_lists[64]: each list as the sequence of its nodes
    bd_tag,       \* memory: block address -> uint16_t order tag of a live block
    bd_live,      \* pointers the caller holds
    bd_hist,      \* the caller's last two calls, most recent first
    bd_run,       \* the caller's calls so far, while they are alloc(s) of one size s
    cr,           \* the caller's last allocator_create call: library, arguments, outcome
    rc_pc,        \* thread -> the statement of allocator_alloc it is about to execute
    rc_loc,       \* thread -> the locals of its allocator_alloc call (need, pp, p, nb)
    rc_got,       \* thread -> the pointers its calls returned, in order
    rc_overlap,   \* some call began while a call of the other thread was in progress
    rc_heap,      \* the buddy arena the threads share: descriptor, list heads, words
    sb_n,         \* barrier_t.n of the MODE_SYNC barrier (bitonic.c)
    sb_count,     \* barrier_t.count
    sb_trip,      \* barrier_t.trip
    sb_m,         \* barrier_t.m: the thread that holds the mutex, 0 when it is free
    sb_cv,        \* barrier_t.cv: the threads blocked in pthread_cond_wait
    sb_pc,        \* thread -> the statement of barrier_wait it is about to execute
    sb_loc,       \* thread -> its local variable trip
    sb_calls,     \* thread -> the number of barrier_wait calls it has begun
    ab_n,         \* barrier_t.n of the MODE_ATOMIC barrier (bitonic.c)
    ab_count,     \* barrier_t.count (atomic_int)
    ab_sense,     \* barrier_t.sense (atomic_int)
    ab_pc,        \* thread -> the statement of barrier_wait_local it is about to execute
    ab_ls,        \* thread -> its local variable ls
    ab_local_sense, \* thread -> the int its local_sense argument points to
    ab_calls,     \* thread -> the number of barrier_wait_local calls it has begun
    bt_np2,       \* worker_ctx_t.np2: the padded length of the array (bitonic.c)
    bt_nthreads,  \* worker_ctx_t.nthreads, after main capped it
    bt_a,         \* the array a[0..np2)
    bt_a0,        \* the contents of a when the workers were created
    bt_pc,        \* worker tid -> where it is in worker_fn
    bt_loc,       \* worker tid -> its locals k, j, i and the trip it saw at the barrier
    bt_waits,     \* worker tid -> the stage barrier waits it has completed
    bt_count,     \* stage_barrier.count
    bt_trip,      \* stage_barrier.trip
    bt_acc,       \* index -> the workers that read or wrote a[index] since the barrier last tripped
    mc_build,     \* lab2/main.c: "mutex" (the default build) or "atomic" (-DUSE_ATOMIC)
    mc_total_rounds, \* main's total_rounds (-r)
    mc_max_threads,  \* main's max_threads (-t)
    mc_total_matches,     \* the global total_matches
    mc_total_simulations, \* the global total_simulations
    mc_stats_mutex,  \* stats_mutex: the thread that holds it, -1 when it is free
    mc_sem,       \* thread_limit_sem.count
    mc_main,      \* main: where it is, and its loop counter i
    mc_thr,       \* thread_id -> the thread's position and locals
    sh_stdin,     \* lab3: the bytes of the server's stdin not read yet
    sh_stdin0,    \* the bytes stdin held when the server forked
    sh_srv,       \* sum-server-shm: where it is, and its inbuf[0..in_len)
    sh_data,      \* the shared_data_t in shared memory: buf, len, eof
    sh_data_ready,\* the value of the semaphore /sum_data_ready
    sh_processed, \* the value of the semaphore /sum_processed
    sh_cli,       \* sum-client-shm: where it is, its inbuf[0..in_len), its last copy
    sh_out        \* the lines the client wrote to the output file

flvars == <<fl_base, fl_size, fl_free_list, fl_hdr, fl_live, fl_hist, fl_run>>

bdvars == <<bd_A, bd_base, bd_size, bd_min_order, bd_max_order, bd_free_lists,
            bd_tag, bd_live, bd_hist, bd_run>>

crvars == <<cr>>

rcvars == <<rc_pc, rc_loc, rc_got, rc_overlap, rc_heap>>

sbvars == <<sb_n, sb_count, sb_trip, sb_m, sb_cv, sb_pc, sb_loc, sb_calls>>

\* the state of the lab2 and lab3 programs
abvars == <<ab_n, ab_count, ab_sense, ab_pc, ab_ls, ab_local_sense, ab_calls>>

btvars == <<bt_np2, bt_nthreads, bt_a, bt_a0, bt_pc, bt_loc, bt_waits, bt_count,
            bt_trip, bt_acc>>

mcvars == <<mc_build, mc_total_rounds, mc_max_threads, mc_total_matches,
            mc_total_simulations, mc_stats_mutex, mc_sem, mc_main, mc_thr>>

shvars == <<sh_stdin, sh_stdin0, sh_srv, sh_data, sh_data_ready, sh_processed,
            sh_cli, sh_out>>

labvars == <<sbvars, abvars, btvars, mcvars, shvars>>

\* the state of the lab4 allocators and their callers
lab4vars == <<flvars, bdvars, crvars, rcvars>>

vars == <<fl_base, fl_size, fl_free_list, fl_hdr, fl_live, fl_hist, fl_run,
          bd_A, bd_base, bd_size, bd_min_order, bd_max_order, bd_free_lists,
          bd_tag, bd_live, bd_hist, bd_run, cr, rc_pc, rc_loc, rc_got, rc_overlap,
          rc_heap, sb_n, sb_count, sb_trip, sb_m, sb_cv, sb_pc, sb_loc, sb_calls,
          ab_n, ab_count, ab_sense, ab_pc, ab_ls, ab_local_sense, ab_calls,
          bt_np2, bt_nthreads, bt_a, bt_a0, bt_pc, bt_loc, bt_waits, bt_count,
          bt_trip, bt_acc, mc_build, mc_total_rounds, mc_max_threads, mc_total_matches,
          mc_total_simulations, mc_stats_mutex, mc_sem, mc_main, mc_thr,
          sh_stdin, sh_stdin0, sh_srv, sh_data, sh_data_ready, sh_processed,
          sh_cli, sh_out>>

NULL == 0

(***************************************************************************)
(* Bounds of the model.                                                    *)
(***************************************************************************)
\* most pointers the caller holds at once, free-list allocator
FLMaxLive == 4

\* arenas handed to the free-list allocator_create: <<memory, size>>
FLArenas == { <<4096, 64>>, <<4096, 224>>, <<4096, 248>> }

\* request sizes the caller passes to the free-list allocator_alloc
FLSizes == { 0, 1, 20, 40 }

\* most pointers the caller holds at once, buddy allocator
BDMaxLive == 3

\* what the caller of the buddy allocator does: the arena it hands to
\* allocator_create and the request sizes it then passes to allocator_alloc,
\* as <<memory, size, request sizes>>
\*   <<4096, 8192>>        memory a multiple of 2^max_order; one block of order 12
\*   <<12288, 20480>>      page-aligned memory that is no multiple of 2^max_order;
\*                         one block of order 14
\*   <<1048576, 4194304>>  4 MiB at a 1 MiB boundary: three blocks of order 20
\*   <<2097152, 4194304>>  the same one MiB higher, with other request sizes
\*   <<1048576, 3145728>>  3 MiB at a 1 MiB boundary: two blocks of order 20
\*                         (the request of 2000000 bytes is above 2^max_order,
\*                         that of 2^20 - 1 bytes is with its tag)
BDWorkloads ==
    { <<4096, 8192, {0, 20, 2000, 4000}>>,
      <<12288, 20480, {0, 20, 4000, 8000}>>,
      <<1048576, 4194304, {0, 20, 1000000}>>,
      <<2097152, 4194304, {0, 500000, 1000000}>>,
      <<1048576, 3145728, {500000, 1000000, 1048575, 2000000}>> }

(***************************************************************************)
(* free_list.h                                                             *)
(***************************************************************************)
SizeofAllocatorFL == 24     \* { unsigned char *base; size_t size; block_header *free_list; }
SizeofBlockHeader == 24     \* { size_t size; block_header *next; int free; } padded to 8
AlignofBlockHeader == 8
AlignofMaxAlign == 16
MinPayload == 16

\* (x + (a - 1)) & ~(a - 1), a a power of two: clears the bits below a
align_up(x, a) == (x + (a - 1)) - ((x + (a - 1)) % a)

(***************************************************************************)
(* free_list.c                                                             *)
(***************************************************************************)
FLOff == align_up(SizeofAllocatorFL, AlignofBlockHeader)

\* allocator_create: the state of memory and of the descriptor on return
FLCreate(memory, size) ==
    [ base      |-> memory,
      size      |-> size,
      free_list |-> memory + FLOff,
      hdr       |-> (memory + FLOff) :> [size |-> size - FLOff, next |-> NULL, free |-> 1] ]

\* split_block without "b->size = need": the carved block keeps its old size
split_block_keeps_size(hdr, b, need) ==
    IF hdr[b].size >= need + SizeofBlockHeader + MinPayload
    THEN LET nb == b + need
         IN  [hdr EXCEPT ![b] = [@ EXCEPT !.next = nb]]
             @@ (nb :> [size |-> hdr[b].size - need, next |-> hdr[b].next, free |-> 1])
    ELSE hdr

\* split_block with the test "b->size >= need + sizeof(block_header)": the
\* remainder may have no payload at all
split_block_no_min_payload(hdr, b, need) ==
    IF hdr[b].size >= need + SizeofBlockHeader
    THEN LET nb == b + need
         IN  [hdr EXCEPT ![b] = [@ EXCEPT !.size = need, !.next = nb]]
             @@ (nb :> [size |-> hdr[b].size - need, next |-> hdr[b].next, free |-> 1])
    ELSE hdr

\* split_block(b, need): the headers after the call
split_block(hdr, b, need) ==
    IF hdr[b].size >= need + SizeofBlockHeader + MinPayload
    THEN LET nb == b + need
         IN  [hdr EXCEPT ![b] = [@ EXCEPT !.size = need, !.next = nb]]
             @@ (nb :> [size |-> hdr[b].size - need, next |-> hdr[b].next, free |-> 1])
    ELSE hdr

\* *pp = v, where pp is &a->free_list (prev = NULL) or &prev->next
StoreLink(st, prev, v) ==
    IF prev = NULL
    THEN [st EXCEPT !.free_list = v]
    ELSE [st EXCEPT !.hdr = [@ EXCEPT ![prev].next = v]]

RECURSIVE FLAllocWalk_keeps_next(_, _, _, _)
\* the walk without "p->next = NULL": the block handed out keeps its link
FLAllocWalk_keeps_next(st, prev, p, need) ==
    IF p = NULL
    THEN [st |-> st, ret |-> NULL]
    ELSE IF st.hdr[p].free = 1 /\ st.hdr[p].size >= need
         THEN LET s1 == [st EXCEPT !.hdr = split_block(@, p, need)]
                  s2 == [s1 EXCEPT !.hdr = [@ EXCEPT ![p].free = 0]]
                  s3 == StoreLink(s2, prev, s2.hdr[p].next)
              IN  [st |-> s3, ret |-> p + SizeofBlockHeader]
         ELSE FLAllocWalk_keeps_next(st, p, st.hdr[p].next, need)

RECURSIVE FLAllocWalk_strict(_, _, _, _)
\* the walk with "p->size > need": a block of exactly need bytes is passed over
FLAllocWalk_strict(st, prev, p, need) ==
    IF p = NULL
    THEN [st |-> st, ret |-> NULL]
    ELSE IF st.hdr[p].free = 1 /\ st.hdr[p].size > need
         THEN LET s1 == [st EXCEPT !.hdr = split_block(@, p, need)]
                  s2 == [s1 EXCEPT !.hdr = [@ EXCEPT ![p].free = 0]]
                  s3 == StoreLink(s2, prev, s2.hdr[p].next)
                  s4 == [s3 EXCEPT !.hdr = [@ EXCEPT ![p].next = NULL]]
              IN  [st |-> s4, ret |-> p + SizeofBlockHeader]
         ELSE FLAllocWalk_strict(st, p, st.hdr[p].next, need)

RECURSIVE FLAllocWalk_marks_skipped(_, _, _, _)
\* the walk with "p->free = 0" done before the size test: every block it
\* passes over is left marked non-free
FLAllocWalk_marks_skipped(st, prev, p, need) ==
    IF p = NULL
    THEN [st |-> st, ret |-> NULL]
    ELSE IF st.hdr[p].free = 1 /\ st.hdr[p].size >= need
         THEN LET s1 == [st EXCEPT !.hdr = split_block(@, p, need)]
                  s2 == [s1 EXCEPT !.hdr = [@ EXCEPT ![p].free = 0]]
                  s3 == StoreLink(s2, prev, s2.hdr[p].next)
                  s4 == [s3 EXCEPT !.hdr = [@ EXCEPT ![p].next = NULL]]
              IN  [st |-> s4, ret |-> p + SizeofBlockHeader]
         ELSE FLAllocWalk_marks_skipped([st EXCEPT !.hdr = [@ EXCEPT ![p].free = 0]],
                                        p, st.hdr[p].next, need)

RECURSIVE FLAllocWalk(_, _, _, _)
\* the while (p) loop of allocator_alloc; prev is the block whose next link
\* pp points at (NULL: pp = &a->free_list)
FLAllocWalk(st, prev, p, need) ==
    IF p = NULL
    THEN [st |-> st, ret |-> NULL]
    ELSE IF st.hdr[p].free = 1 /\ st.hdr[p].size >= need
         THEN LET s1 == [st EXCEPT !.hdr = split_block(@, p, need)]
                  s2 == [s1 EXCEPT !.hdr = [@ EXCEPT ![p].free = 0]]
                  s3 == StoreLink(s2, prev, s2.hdr[p].next)
                  s4 == [s3 EXCEPT !.hdr = [@ EXCEPT ![p].next = NULL]]
              IN  [st |-> s4, ret |-> p + SizeofBlockHeader]
         ELSE FLAllocWalk(st, p, st.hdr[p].next, need)

\* need without "+ sizeof(block_header)"
FLNeed_no_header(size) == align_up(size, AlignofMaxAlign)

FLNeed(size) == align_up(size, AlignofMaxAlign) + SizeofBlockHeader

\* allocator_alloc without "if (size == 0) return NULL"
FLAllocResult_no_zero_check(st, size) ==
    FLAllocWalk(st, NULL, st.free_list, FLNeed(size))

\* allocator_alloc(a, size): [st |-> state on return, ret |-> pointer or NULL]
FLAllocResult(st, size) ==
    IF size = 0
    THEN [st |-> st, ret |-> NULL]
    ELSE FLAllocWalk(st, NULL, st.free_list, FLNeed(size))

ptr_to_block(ptr) == ptr - SizeofBlockHeader

\* insertion at the head of the list instead of in address order
FLInsertAtHead(st, prev, p, b) ==
    [st EXCEPT !.hdr = [@ EXCEPT ![b].next = st.free_list], !.free_list = b]

RECURSIVE FLInsertWalk(_, _, _, _)
\* while (p && p < b) of allocator_free, then b->next = p; *pp = b
FLInsertWalk(st, prev, p, b) ==
    IF p # NULL /\ p < b
    THEN FLInsertWalk(st, p, st.hdr[p].next, b)
    ELSE StoreLink([st EXCEPT !.hdr = [@ EXCEPT ![b].next = p]], prev, b)

\* successor spliced out without "b->size += b->next->size"
FLCoalesceNext_loses_size(st, b) ==
    LET n == st.hdr[b].next
    IN  IF n # NULL /\ st.hdr[n].free = 1 /\ b + st.hdr[b].size = n
        THEN [st EXCEPT !.hdr =
                [x \in (DOMAIN st.hdr) \ {n} |->
                    IF x = b
                    THEN [st.hdr[b] EXCEPT !.next = st.hdr[n].next]
                    ELSE st.hdr[x]]]
        ELSE st

\* no coalescing with the successor at all
FLCoalesceNext_skipped(st, b) == st

\* "Try to coalesce with next block"
FLCoalesceNext(st, b) ==
    LET n == st.hdr[b].next
    IN  IF n # NULL /\ st.hdr[n].free = 1 /\ b + st.hdr[b].size = n
        THEN [st EXCEPT !.hdr =
                [x \in (DOMAIN st.hdr) \ {n} |->
                    IF x = b
                    THEN [st.hdr[b] EXCEPT !.size = @ + st.hdr[n].size,
                                           !.next = st.hdr[n].next]
                    ELSE st.hdr[x]]]
        ELSE st

\* no coalescing with the predecessor at all
FLCoalescePrev_skipped(st, p, b) == st

RECURSIVE FLCoalescePrevWalk(_, _, _)
\* "Try to coalesce with previous block": while (p && p != b)
FLCoalescePrevWalk(st, p, b) ==
    IF p = NULL \/ p = b
    THEN st
    ELSE IF st.hdr[p].next = b /\ p + st.hdr[p].size = b
         THEN [st EXCEPT !.hdr =
                 [x \in (DOMAIN st.hdr) \ {b} |->
                     IF x = p
                     THEN [st.hdr[p] EXCEPT !.size = @ + st.hdr[b].size,
                                            !.next = st.hdr[b].next]
                     ELSE st.hdr[x]]]
         ELSE FLCoalescePrevWalk(st, st.hdr[p].next, b)

\* allocator_free(a, ptr): the state on return
FLFreeResult(st, ptr) ==
    IF ptr = NULL
    THEN st
    ELSE LET b  == ptr_to_block(ptr)
             s1 == [st EXCEPT !.hdr = [@ EXCEPT ![b].free = 1]]
             s2 == FLInsertWalk(s1, NULL, s1.free_list, b)
             s3 == FLCoalesceNext(s2, b)
         IN  FLCoalescePrevWalk(s3, s3.free_list, b)

(***************************************************************************)
(* The free-list allocator as a state machine.                             *)
(***************************************************************************)
FLState == [base |-> fl_base, size |-> fl_size, free_list |-> fl_free_list, hdr |-> fl_hdr]

RECURSIVE FLChain(_, _, _)
\* the blocks reachable from p, in list order, as <<address, size>> pairs
\* (fuel stops the walk if the chain were cyclic)
FLChain(hdr, p, fuel) ==
    IF p = NULL \/ fuel = 0
    THEN <<>>
    ELSE << <<p, hdr[p].size>> >> \o FLChain(hdr, hdr[p].next, fuel - 1)

\* the free list as the caller can observe it by walking from free_list
FLList == FLChain(fl_hdr, fl_free_list, Cardinality(DOMAIN fl_hdr) + 1)

\* one call of the caller: what was called, with what, what it returned, the
\* block it concerned and that block's size on return (alloc) or on entry
\* (free), the free list before the call, and the descriptor, the headers and
\* the caller's pointers before the call
FLNoCall ==
    [op |-> "none", arg |-> 0, ret |-> NULL, blk |-> NULL, bsize |-> 0, pre |-> <<>>,
     before |-> <<>>]

\* descriptor, headers and the pointers the caller holds
FLSnapshot == [st |-> FLState, live |-> fl_live]

\* The caller's calls so far, while they are nothing but alloc(s) with one
\* size s > 0 on the fresh allocator: s, how many returned a pointer, and
\* whether the last one returned NULL.  Any other call ends the run.
NoRunYet == [pure |-> TRUE, size |-> 0, n |-> 0, failed |-> FALSE]

RunEnded == [pure |-> FALSE, size |-> 0, n |-> 0, failed |-> FALSE]

RunAfterAlloc(run, size, ret) ==
    IF run.pure /\ ~run.failed /\ size # 0 /\ run.size \in {0, size}
    THEN [pure |-> TRUE, size |-> size,
          n |-> IF ret = NULL THEN run.n ELSE run.n + 1,
          failed |-> (ret = NULL)]
    ELSE RunEnded

\* a destroy that clears the descriptor's list head
FLDestroy_clears_head(st) == [st EXCEPT !.free_list = NULL]

\* allocator_destroy(a): the state on return
FLDestroyResult(st) == st

\* no allocator_create call is under observation
CRIdle == cr = <<>>

\* no barrier exists (the program run is not bitonic in MODE_SYNC)
SBIdle ==
    /\ sb_n = 0
    /\ sb_count = 0
    /\ sb_trip = 0
    /\ sb_m = 0
    /\ sb_cv = {}
    /\ sb_pc = <<>>
    /\ sb_loc = <<>>
    /\ sb_calls = <<>>

\* no barrier exists (the program run is not bitonic in MODE_ATOMIC)
ABIdle ==
    /\ ab_n = 0
    /\ ab_count = 0
    /\ ab_sense = 0
    /\ ab_pc = <<>>
    /\ ab_ls = <<>>
    /\ ab_local_sense = <<>>
    /\ ab_calls = <<>>

\* no sort is running
BTIdle ==
    /\ bt_np2 = 0
    /\ bt_nthreads = 0
    /\ bt_a = <<>>
    /\ bt_a0 = <<>>
    /\ bt_pc = <<>>
    /\ bt_loc = <<>>
    /\ bt_waits = <<>>
    /\ bt_count = 0
    /\ bt_trip = 0
    /\ bt_acc = <<>>

\* the Monte-Carlo program is not running
MCIdle ==
    /\ mc_build = "none"
    /\ mc_total_rounds = 0
    /\ mc_max_threads = 0
    /\ mc_total_matches = 0
    /\ mc_total_simulations = 0
    /\ mc_stats_mutex = -1
    /\ mc_sem = 0
    /\ mc_main = <<>>
    /\ mc_thr = <<>>

\* the shared-memory pipeline is not running
SHIdle ==
    /\ sh_stdin = <<>>
    /\ sh_stdin0 = <<>>
    /\ sh_srv = <<>>
    /\ sh_data = <<>>
    /\ sh_data_ready = 0
    /\ sh_processed = 0
    /\ sh_cli = <<>>
    /\ sh_out = <<>>

\* none of the lab2 and lab3 programs is running
LabIdle ==
    /\ SBIdle
    /\ ABIdle
    /\ BTIdle
    /\ MCIdle
    /\ SHIdle

\* no threads share an allocator
RCIdle ==
    /\ rc_pc = <<>>
    /\ rc_loc = <<>>
    /\ rc_got = <<>>
    /\ rc_overlap = FALSE
    /\ rc_heap = <<>>

\* the buddy allocator is not in use
BDIdle ==
    /\ bd_A = NULL
    /\ bd_base = NULL
    /\ bd_size = 0
    /\ bd_min_order = 0
    /\ bd_max_order = 0
    /\ bd_free_lists = <<>>
    /\ bd_tag = <<>>
    /\ bd_live = {}
    /\ bd_hist = <<>>
    /\ bd_run = <<>>

FLInit ==
    /\ BDIdle
    /\ CRIdle
    /\ LabIdle
    /\ RCIdle
    /\ \E ar \in FLArenas :
          LET st == FLCreate(ar[1], ar[2])
          IN  /\ fl_base = st.base
              /\ fl_size = st.size
              /\ fl_free_list = st.free_list
              /\ fl_hdr = st.hdr
              /\ fl_live = {}
              /\ fl_hist = <<FLNoCall, FLNoCall>>
              /\ fl_run = NoRunYet

\* the caller calls allocator_alloc(a, size)
FLAlloc(size) ==
    /\ fl_base # NULL
    /\ fl_hist[1].op # "destroy"
    /\ Cardinality(fl_live) < FLMaxLive
    /\ LET r == FLAllocResult(FLState, size)
           b == ptr_to_block(r.ret)
       IN  /\ fl_free_list' = r.st.free_list
           /\ fl_hdr' = r.st.hdr
           /\ fl_live' = IF r.ret = NULL THEN fl_live ELSE fl_live \cup {r.ret}
           /\ fl_hist' = << [op |-> "alloc", arg |-> size, ret |-> r.ret,
                             blk |-> IF r.ret = NULL THEN NULL ELSE b,
                             bsize |-> IF r.ret = NULL THEN 0 ELSE r.st.hdr[b].size,
                             pre |-> FLList, before |-> FLSnapshot],
                            fl_hist[1] >>
           /\ fl_run' = RunAfterAlloc(fl_run, size, r.ret)
    /\ UNCHANGED <<fl_base, fl_size, bdvars, crvars, labvars, rcvars>>

\* the caller calls allocator_free(a, ptr) on a pointer it holds
FLFree(ptr) ==
    /\ fl_base # NULL
    /\ fl_hist[1].op # "destroy"
    /\ ptr \in fl_live \cup {NULL}
    /\ LET st == FLFreeResult(FLState, ptr)
           b  == ptr_to_block(ptr)
       IN  /\ fl_free_list' = st.free_list
           /\ fl_hdr' = st.hdr
           /\ fl_live' = fl_live \ {ptr}
           /\ fl_hist' = << [op |-> "free", arg |-> ptr, ret |-> NULL,
                             blk |-> IF ptr = NULL THEN NULL ELSE b,
                             bsize |-> IF ptr = NULL THEN 0 ELSE fl_hdr[b].size,
                             pre |-> FLList, before |-> FLSnapshot],
                            fl_hist[1] >>
           /\ fl_run' = RunEnded
    /\ UNCHANGED <<fl_base, fl_size, bdvars, crvars, labvars, rcvars>>

\* the caller calls allocator_destroy(a); it makes no call on the handle after
\* that, except allocator_destroy again
FLDestroy ==
    /\ fl_base # NULL
    /\ LET st == FLDestroyResult(FLState)
       IN  /\ fl_base' = st.base
           /\ fl_size' = st.size
           /\ fl_free_list' = st.free_list
           /\ fl_hdr' = st.hdr
           /\ fl_live' = fl_live
           /\ fl_hist' = << [op |-> "destroy", arg |-> 0, ret |-> NULL, blk |-> NULL,
                             bsize |-> 0, pre |-> FLList, before |-> FLSnapshot],
                            fl_hist[1] >>
           /\ fl_run' = RunEnded
    /\ UNCHANGED <<bdvars, crvars, labvars, rcvars>>

FLNext ==
    \/ \E size \in FLSizes : FLAlloc(size)
    \/ \E ptr \in fl_live \cup {NULL} : FLFree(ptr)
    \/ FLDestroy

SpecFL == FLInit /\ [][FLNext]_vars

(***************************************************************************)
(* Claims about the free-list allocator (checked under SpecFL).            *)
(***************************************************************************)
FLBlockOf(ptr) == ptr_to_block(ptr)
FLPayloadEnd(ptr) == FLBlockOf(ptr) + fl_hdr[FLBlockOf(ptr)].size

RECURSIVE FLSumSizes(_)
FLSumSizes(chain) ==
    IF chain = <<>> THEN 0 ELSE Head(chain)[2] + FLSumSizes(Tail(chain))

RECURSIVE FLSumLive(_)
FLSumLive(ptrs) ==
    IF ptrs = {}
    THEN 0
    ELSE LET p == CHOOSE x \in ptrs : TRUE
         IN  fl_hdr[FLBlockOf(p)].size + FLSumLive(ptrs \ {p})

\* C1: the payload regions [ptr, block + block.size) of the live allocations
\* are pairwise disjoint, start after the Allocator descriptor
\* [memory, memory + sizeof(Allocator)) and end inside [memory, memory + size).
C1_FLNonOverlap ==
    /\ \A p \in fl_live :
          /\ p >= fl_base + SizeofAllocatorFL
          /\ p <= FLPayloadEnd(p)
          /\ FLPayloadEnd(p) <= fl_base + fl_size
    /\ \A p, q \in fl_live :
          p # q => (FLPayloadEnd(p) <= q \/ FLPayloadEnd(q) <= p)

\* three allocations are live at once and a block between others was freed
C1_Witness ==
    /\ Cardinality(fl_live) >= 3
    /\ fl_hist[1].op = "free"
    /\ \E p, q \in fl_live : p < fl_hist[1].arg /\ fl_hist[1].arg < q

\* C4: sizes of the blocks reachable from free_list + sizes of the live blocks
\* + align_up(sizeof(Allocator), alignof(block_header)) = the arena size.
C4_FLConservation ==
    FLSumSizes(FLList) + FLSumLive(fl_live) + FLOff = fl_size

\* a free that merged blocks happened while other allocations stay live
C4_Witness ==
    /\ fl_hist[1].op = "free"
    /\ Len(FLList) <= Len(fl_hist[1].pre)
    /\ fl_live # {}
    /\ Len(FLList) >= 2

\* C7: two live blocks A, B with A + A.size = B, no free block ending at A
\* and none starting at B + B.size, freed one right after the other in either
\* order: the free list then holds <<A, A.size + B.size>> and no entry at B.
C7_Pair ==
    /\ fl_hist[1].op = "free"
    /\ fl_hist[2].op = "free"
    /\ fl_hist[1].arg # NULL
    /\ fl_hist[2].arg # NULL
    /\ LET x == fl_hist[2]   \* freed first
           y == fl_hist[1]   \* freed second
           A == IF x.blk < y.blk THEN x ELSE y
           B == IF x.blk < y.blk THEN y ELSE x
       IN  /\ A.blk + A.bsize = B.blk
           /\ \A i \in 1..Len(x.pre) :
                 /\ x.pre[i][1] + x.pre[i][2] # A.blk
                 /\ x.pre[i][1] # B.blk + B.bsize

\* C7 (formula): after such a pair of frees exactly one entry was added to the
\* free list, <<A, A.size + B.size>>, and B is no entry.
C7_FLCoalescePair ==
    C7_Pair =>
        LET x == fl_hist[2]
            y == fl_hist[1]
            A == IF x.blk < y.blk THEN x ELSE y
            B == IF x.blk < y.blk THEN y ELSE x
        IN  /\ \E i \in 1..Len(FLList) : FLList[i] = <<A.blk, A.bsize + B.bsize>>
            /\ \A i \in 1..Len(FLList) : FLList[i][1] # B.blk
            /\ Len(FLList) = Len(x.pre) + 1

\* the higher block was freed first, then the lower one (merge with successor)
C7_Witness ==
    /\ C7_Pair
    /\ fl_hist[2].blk > fl_hist[1].blk
    /\ fl_live # {}

\* C9: a successful alloc followed at once by free of the returned pointer
\* leaves the free list as it was before the alloc (addresses, sizes, order).
C9_RoundTrip ==
    /\ fl_hist[1].op = "free"
    /\ fl_hist[2].op = "alloc"
    /\ fl_hist[2].ret # NULL
    /\ fl_hist[2].ret = fl_hist[1].arg

\* C9 (formula): after alloc then free of its pointer the free list equals the
\* list recorded before the alloc.
C9_FLRoundTrip ==
    C9_RoundTrip => FLList = fl_hist[2].pre

\* the round trip went through a block that was not split and was not the
\* first of the list
C9_Witness ==
    /\ C9_RoundTrip
    /\ fl_hist[2].bsize > FLNeed(fl_hist[2].arg)
    /\ Len(fl_hist[2].pre) >= 2
    /\ fl_hist[2].pre[1][1] # fl_hist[2].blk

\* C10: once every live block has been freed the free list is the single
\* block at memory + off of size (arena size - off).
C10_FLFullCoalesce ==
    fl_live = {} => FLList = << <<fl_base + FLOff, fl_size - FLOff>> >>

\* the last two of several live blocks were freed, the lower one first
C10_Witness ==
    /\ fl_live = {}
    /\ fl_hist[1].op = "free"
    /\ fl_hist[2].op = "free"
    /\ fl_hist[1].arg # NULL
    /\ fl_hist[2].arg # NULL
    /\ Len(fl_hist[2].pre) >= 1
    /\ fl_hist[2].blk < fl_hist[1].blk

\* C13: on a fresh free-list allocator, repeated alloc(s), s > 0, returns a
\* pointer floor((size - off) / need) times, need = align_up(s, 16) + 24, and
\* NULL on the next call, never earlier.
C13_Expected(s) ==
    (fl_size - align_up(SizeofAllocatorFL, AlignofBlockHeader))
        \div (((s + AlignofMaxAlign - 1) \div AlignofMaxAlign) * AlignofMaxAlign
              + SizeofBlockHeader)

C13_FLExhaustion ==
    (fl_base # NULL /\ fl_run.pure /\ fl_run.size # 0) =>
        /\ fl_run.n <= C13_Expected(fl_run.size)
        /\ fl_run.failed => fl_run.n = C13_Expected(fl_run.size)

\* three allocations were handed out, the last one a whole block larger than
\* need, and the next call returned NULL
C13_Witness ==
    /\ fl_base # NULL
    /\ fl_run.pure
    /\ fl_run.failed
    /\ fl_run.n >= 3
    /\ \E p \in fl_live : fl_hdr[ptr_to_block(p)].size > FLNeed(fl_run.size)

\* C22: the blocks reachable from free_list are in strictly ascending address
\* order and the chain ends in NULL after finitely many blocks (no block
\* twice), after create and after every alloc and free.
C22_FLAscending ==
    fl_base # NULL =>
        /\ Len(FLList) <= Cardinality(DOMAIN fl_hdr)
        /\ \A i, j \in 1..Len(FLList) : i < j => FLList[i][1] < FLList[j][1]

\* a free put its block between two free blocks that are not its neighbours
C22_Witness ==
    /\ fl_base # NULL
    /\ fl_hist[1].op = "free"
    /\ Len(FLList) >= 3
    /\ FLList[2][1] = fl_hist[1].blk
    /\ FLList[2][2] = fl_hist[1].bsize

\* C23: every block reachable from free_list has free = 1; every live block
\* has free = 0 and next = NULL and its header is not reachable from free_list.
C23_FLFlags ==
    fl_base # NULL =>
        /\ \A i \in 1..Len(FLList) : fl_hdr[FLList[i][1]].free = 1
        /\ \A p \in fl_live :
              /\ fl_hdr[ptr_to_block(p)].free = 0
              /\ fl_hdr[ptr_to_block(p)].next = NULL
              /\ \A i \in 1..Len(FLList) : FLList[i][1] # ptr_to_block(p)

\* an alloc split a block that had a successor on the list, other blocks live
C23_Witness ==
    /\ fl_base # NULL
    /\ fl_hist[1].op = "alloc"
    /\ fl_hist[1].ret # NULL
    /\ Cardinality(fl_live) >= 2
    /\ Len(FLList) >= 2
    /\ \E i \in 1..(Len(FLList) - 1) : FLList[i][1] = fl_hist[1].blk + fl_hist[1].bsize

\* C24: no free block ends where another free block starts, after every alloc
\* and free.
C24_FLNoAdjacentFree ==
    fl_base # NULL =>
        \A i, j \in 1..Len(FLList) : FLList[i][1] + FLList[i][2] # FLList[j][1]

\* a free merged its block with a free neighbour while other blocks stay free
\* and live
C24_Witness ==
    /\ fl_base # NULL
    /\ fl_hist[1].op = "free"
    /\ fl_hist[1].arg # NULL
    /\ Len(FLList) = Len(fl_hist[1].pre)
    /\ Len(FLList) >= 2
    /\ fl_live # {}

\* need as allocator_alloc computes it for a request of s bytes
C25_Need(s) ==
    ((s + AlignofMaxAlign - 1) \div AlignofMaxAlign) * AlignofMaxAlign + SizeofBlockHeader

\* the positions of the free list before the last call whose block holds need bytes
C25_Fits == { i \in 1..Len(fl_hist[1].pre) : fl_hist[1].pre[i][2] >= C25_Need(fl_hist[1].arg) }

\* C25: a successful alloc(s) returns the payload of the first block in list
\* order whose size is at least need, which is the lowest-addressed such free
\* block; alloc(s), s > 0, returns NULL exactly when no free block has size >= need.
C25_FLFirstFit ==
    (fl_base # NULL /\ fl_hist[1].op = "alloc" /\ fl_hist[1].arg # 0) =>
        /\ (fl_hist[1].ret = NULL) <=> (C25_Fits = {})
        /\ fl_hist[1].ret # NULL =>
              /\ fl_hist[1].ret = fl_hist[1].blk + SizeofBlockHeader
              /\ \E i \in C25_Fits :
                    /\ fl_hist[1].pre[i][1] = fl_hist[1].blk
                    /\ \A j \in C25_Fits : i <= j
                    /\ \A j \in C25_Fits : fl_hist[1].pre[i][1] <= fl_hist[1].pre[j][1]

\* the alloc passed over a free block that was too small
C25_Witness ==
    /\ fl_base # NULL
    /\ fl_hist[1].op = "alloc"
    /\ fl_hist[1].ret # NULL
    /\ 1 \notin C25_Fits
    /\ Len(fl_hist[1].pre) >= 2

\* the sequence with the entries at positions i..j replaced by the entries of mid
Splice(seq, i, j, mid) == SubSeq(seq, 1, i - 1) \o mid \o SubSeq(seq, j + 1, Len(seq))

\* the position on the free list before the last call of the block it chose
C26_Pos == CHOOSE i \in 1..Len(fl_hist[1].pre) : fl_hist[1].pre[i][1] = fl_hist[1].blk

\* C26: alloc splits the block of size S it chose iff S >= need + 24 + 16.  On
\* a split the live block has size need and a free block <<block + need,
\* S - need>> stands at the original's place in the list; otherwise the whole
\* block of size S is live and its place in the list is closed up.
C26_FLSplitRule ==
    (fl_base # NULL /\ fl_hist[1].op = "alloc" /\ fl_hist[1].ret # NULL) =>
        LET need == C25_Need(fl_hist[1].arg)
            blk  == fl_hist[1].blk
            S    == fl_hist[1].pre[C26_Pos][2]
        IN  IF S >= need + SizeofBlockHeader + MinPayload
            THEN /\ fl_hdr[blk].size = need
                 /\ FLList = Splice(fl_hist[1].pre, C26_Pos, C26_Pos,
                                    << <<blk + need, S - need>> >>)
            ELSE /\ fl_hdr[blk].size = S
                 /\ FLList = Splice(fl_hist[1].pre, C26_Pos, C26_Pos, <<>>)

\* a block that was not first on the list was split
C26_Witness ==
    /\ fl_base # NULL
    /\ fl_hist[1].op = "alloc"
    /\ fl_hist[1].ret # NULL
    /\ C26_Pos >= 2
    /\ fl_hist[1].pre[C26_Pos][2] >= C25_Need(fl_hist[1].arg) + SizeofBlockHeader + MinPayload

\* a block that was not first on the list was handed out whole, larger than need
C26_WitnessWhole ==
    /\ fl_base # NULL
    /\ fl_hist[1].op = "alloc"
    /\ fl_hist[1].ret # NULL
    /\ C26_Pos >= 2
    /\ fl_hist[1].pre[C26_Pos][2] > C25_Need(fl_hist[1].arg)
    /\ fl_hist[1].pre[C26_Pos][2] < C25_Need(fl_hist[1].arg) + SizeofBlockHeader + MinPayload

\* the last call freed a live block whose physical predecessor and successor
\* were both on the free list, at positions i and i + 1
C27_Between(i) ==
    /\ fl_hist[1].op = "free"
    /\ fl_hist[1].arg # NULL
    /\ i + 1 <= Len(fl_hist[1].pre)
    /\ fl_hist[1].pre[i][1] + fl_hist[1].pre[i][2] = fl_hist[1].blk
    /\ fl_hist[1].blk + fl_hist[1].bsize = fl_hist[1].pre[i + 1][1]

\* C27: freeing a live block between a free predecessor and a free successor
\* leaves one free block in their place, at the predecessor's address, of the
\* three sizes' sum, whose next is the successor's former next.
C27_FLThreeWayMerge ==
    fl_base # NULL =>
        \A i \in 1..Len(fl_hist[1].pre) :
            C27_Between(i) =>
                LET pred == fl_hist[1].pre[i]
                    succ == fl_hist[1].pre[i + 1]
                IN  /\ FLList = Splice(fl_hist[1].pre, i, i + 1,
                                       << <<pred[1], pred[2] + fl_hist[1].bsize + succ[2]>> >>)
                    /\ fl_hdr[pred[1]].next = fl_hist[1].before.st.hdr[succ[1]].next
                    /\ fl_hdr[pred[1]].free = 1
                    /\ fl_hist[1].blk \notin DOMAIN fl_hdr \/ fl_hist[1].blk = pred[1]

\* the three blocks merged stood before another free block
C27_Witness ==
    /\ fl_base # NULL
    /\ \E i \in 1..Len(fl_hist[1].pre) :
          /\ C27_Between(i)
          /\ fl_hist[1].before.st.hdr[fl_hist[1].pre[i + 1][1]].next # NULL
          /\ fl_live # {}

(***************************************************************************)
(* mc_kusick.h, mc_kusick.c                                                *)
(***************************************************************************)
SizeofAllocatorBD == 536    \* base, size, min_order, max_order, free_lists[64]
SizeofUint16 == 2           \* the order tag at the start of a live block
NumLists == 64
MaxOrderCap == 20
MinUsable == 64
CreateAlign == 16
MinOrderFloor == 4
MinNodeBytes == 8

pow2(k) == 2 ^ k

RECURSIVE ilog2_ceil_loop(_, _, _)
ilog2_ceil_loop(x, v, k) == IF v < x THEN ilog2_ceil_loop(x, 2 * v, k + 1) ELSE k

ilog2_ceil(x) == ilog2_ceil_loop(x, 1, 0)

\* rel ^ pow2(k) on unsigned values: flips bit k of rel
xor_pow2(rel, k) ==
    IF (rel \div pow2(k)) % 2 = 1 THEN rel - pow2(k) ELSE rel + pow2(k)

\* list_push: the node becomes the head
list_push(list, n) == <<n>> \o list

\* list_pop: the list that remains (the node returned is Head(list))
list_pop(list) == IF list = <<>> THEN <<>> ELSE Tail(list)

RECURSIVE list_remove(_, _)
\* list_remove: unlinks the first node equal to n
list_remove(list, n) ==
    IF list = <<>>
    THEN <<>>
    ELSE IF Head(list) = n THEN Tail(list) ELSE <<Head(list)>> \o list_remove(Tail(list), n)

\* while (it) { if (it == buddy) found = 1 ... } over list k
list_has(list, n) == \E i \in 1..Len(list) : list[i] = n

RECURSIVE BDMaxOrderLoop(_, _)
\* while (max_order < 20 && pow2(max_order + 1) <= usable) max_order++
BDMaxOrderLoop(usable, m) ==
    IF m < MaxOrderCap /\ pow2(m + 1) <= usable THEN BDMaxOrderLoop(usable, m + 1) ELSE m

BDMinOrder ==
    IF pow2(MinOrderFloor) < SizeofUint16 + MinNodeBytes
    THEN ilog2_ceil(SizeofUint16 + MinNodeBytes)
    ELSE MinOrderFloor

BDOff == align_up(SizeofAllocatorBD, CreateAlign)

\* the aligned start of the working arena: ((uintptr_t)arena + mask) & ~mask
BDAligned(memory, max_order) == align_up(memory + BDOff, pow2(max_order))

\* blocks = usable >> max_order after usable -= align_pad; usable &= ~mask
BDBlocks(memory, size, max_order) ==
    LET usable    == size - BDOff
        align_pad == BDAligned(memory, max_order) - (memory + BDOff)
        rest      == usable - align_pad
    IN  (rest - (rest % pow2(max_order))) \div pow2(max_order)

RECURSIVE BDSeed(_, _, _, _)
\* for (i = 0; i < blocks; i++) push arena + (i << max_order) on list max_order
BDSeed(list, arena, max_order, blocks) ==
    IF blocks = 0
    THEN list
    ELSE list_push(BDSeed(list, arena, max_order, blocks - 1),
                   arena + (blocks - 1) * pow2(max_order))

BDFailed ==
    [A |-> NULL, base |-> NULL, size |-> 0, min_order |-> 0, max_order |-> 0,
     free_lists |-> [i \in 0..(NumLists - 1) |-> <<>>]]

\* allocator_create(memory, size): the descriptor on return; A = NULL on failure
BDCreate(memory, size) ==
    LET usable    == size - BDOff
        min_order == BDMinOrder
        max_order == BDMaxOrderLoop(usable, 0)
        aligned   == BDAligned(memory, max_order)
        align_pad == aligned - (memory + BDOff)
    IN  IF usable < MinUsable THEN BDFailed
        ELSE IF max_order < min_order THEN BDFailed
        ELSE IF align_pad >= usable THEN BDFailed
        ELSE [A |-> memory, base |-> memory, size |-> size,
              min_order |-> min_order, max_order |-> max_order,
              free_lists |-> [i \in 0..(NumLists - 1) |->
                                IF i = max_order
                                THEN BDSeed(<<>>, aligned, max_order,
                                            BDBlocks(memory, size, max_order))
                                ELSE <<>>]]

RECURSIVE order_for_loop(_, _)
order_for_loop(need, k) == IF pow2(k) < need THEN order_for_loop(need, k + 1) ELSE k

\* order_for with need = size: the two bytes of the tag are not counted
order_for_no_tag(size, min_order) == order_for_loop(size, min_order)

\* order_for(size, min_order)
order_for(size, min_order) == order_for_loop(size + SizeofUint16, min_order)

RECURSIVE BDFindOrder(_, _, _)
\* while (cur <= max_order && free_lists[cur] == NULL) cur++
BDFindOrder(lists, max_order, cur) ==
    IF cur <= max_order /\ lists[cur] = <<>>
    THEN BDFindOrder(lists, max_order, cur + 1)
    ELSE cur

RECURSIVE BDSplit_pushes_lower(_, _, _, _)
\* the split loop pushing the half it keeps (block) instead of the upper half
BDSplit_pushes_lower(lists, block, cur, k) ==
    IF cur > k
    THEN BDSplit_pushes_lower([lists EXCEPT ![cur - 1] = list_push(@, block)],
                              block, cur - 1, k)
    ELSE lists

RECURSIVE BDSplit_drops_upper(_, _, _, _)
\* the split loop without list_push: the upper halves are put on no list
BDSplit_drops_upper(lists, block, cur, k) ==
    IF cur > k THEN BDSplit_drops_upper(lists, block, cur - 1, k) ELSE lists

RECURSIVE BDSplit(_, _, _, _)
\* while (cur > k) { cur--; push block + pow2(cur) on list cur; }
BDSplit(lists, block, cur, k) ==
    IF cur > k
    THEN BDSplit([lists EXCEPT ![cur - 1] = list_push(@, block + pow2(cur - 1))],
                 block, cur - 1, k)
    ELSE lists

\* allocator_alloc(A, size) on st = [min_order, max_order, free_lists, tag, base]:
\* [st |-> state on return, ret |-> pointer or NULL]
BDAllocResult(st, size) ==
    IF size = 0
    THEN [st |-> st, ret |-> NULL]
    ELSE LET k   == order_for(size, st.min_order)
             cur == BDFindOrder(st.free_lists, st.max_order, k)
         IN  IF k > st.max_order THEN [st |-> st, ret |-> NULL]
             ELSE IF cur > st.max_order THEN [st |-> st, ret |-> NULL]
             ELSE LET block  == Head(st.free_lists[cur])
                      popped == [st.free_lists EXCEPT ![cur] = list_pop(@)]
                  IN  [st  |-> [st EXCEPT !.free_lists = BDSplit(popped, block, cur, k),
                                          !.tag = (block :> k) @@ @],
                       ret |-> block + SizeofUint16]

\* the address allocator_free looks for on list k: A->base + (rel ^ pow2(k))
BDBuddy(base, block, k) == base + xor_pow2(block - base, k)

RECURSIVE BDFreeLoop(_, _, _, _, _)
\* the for (;;) loop of allocator_free: the free lists on return
BDFreeLoop(lists, base, max_order, block, k) ==
    LET buddy == BDBuddy(base, block, k)
    IN  IF ~list_has(lists[k], buddy)
        THEN [lists EXCEPT ![k] = list_push(@, block)]
        ELSE LET removed == [lists EXCEPT ![k] = list_remove(@, buddy)]
                 merged  == IF buddy < block THEN buddy ELSE block
             IN  IF k + 1 > max_order
                 THEN [removed EXCEPT ![k] = list_push(@, merged)]
                 ELSE BDFreeLoop(removed, base, max_order, merged, k + 1)

RECURSIVE BDFreeSteps(_, _, _, _, _)
\* the for (;;) loop of allocator_free: the <<block, k>> of each iteration
BDFreeSteps(lists, base, max_order, block, k) ==
    LET buddy == BDBuddy(base, block, k)
    IN  IF ~list_has(lists[k], buddy)
        THEN << <<block, k>> >>
        ELSE LET removed == [lists EXCEPT ![k] = list_remove(@, buddy)]
                 merged  == IF buddy < block THEN buddy ELSE block
             IN  IF k + 1 > max_order
                 THEN << <<block, k>> >>
                 ELSE << <<block, k>> >> \o BDFreeSteps(removed, base, max_order, merged, k + 1)

\* allocator_free without "if (!ptr) return": the bytes before address 0 are
\* taken for a block and pushed on a list
BDFreeResult_no_null_check(st, ptr) ==
    IF ptr = NULL
    THEN [st EXCEPT !.free_lists =
             [@ EXCEPT ![st.min_order] = list_push(@, ptr - SizeofUint16)]]
    ELSE LET p == ptr - SizeofUint16
             k == st.tag[p]
         IN  [st EXCEPT !.free_lists = BDFreeLoop(@, st.base, st.max_order, p, k),
                        !.tag = [b \in (DOMAIN st.tag) \ {p} |-> st.tag[b]]]

\* allocator_free(A, ptr): the state on return.  The freed block's first bytes
\* become a FreeNode, so its order tag is no longer in memory.
BDFreeResult(st, ptr) ==
    IF ptr = NULL
    THEN st
    ELSE LET p == ptr - SizeofUint16
             k == st.tag[p]
         IN  [st EXCEPT !.free_lists = BDFreeLoop(@, st.base, st.max_order, p, k),
                        !.tag = [b \in (DOMAIN st.tag) \ {p} |-> st.tag[b]]]

\* allocator_destroy(a): the state on return
BDDestroyResult(st) == st

(***************************************************************************)
(* The buddy allocator as a state machine.                                 *)
(***************************************************************************)
BDState ==
    [base |-> bd_base, min_order |-> bd_min_order, max_order |-> bd_max_order,
     free_lists |-> bd_free_lists, tag |-> bd_tag]

\* one call of the caller: the call, its argument and result, the block it
\* concerned with its order, and the free lists before the call
BDNoCall ==
    [op |-> "none", arg |-> 0, ret |-> NULL, blk |-> NULL, order |-> 0,
     pre |-> [i \in 0..(NumLists - 1) |-> <<>>], before |-> <<>>]

\* descriptor, free lists, tags and the pointers the caller holds
BDSnapshot == [st |-> BDState, size |-> bd_size, live |-> bd_live]

\* the free-list allocator is not in use
FLIdle ==
    /\ fl_base = NULL
    /\ fl_size = 0
    /\ fl_free_list = NULL
    /\ fl_hdr = <<>>
    /\ fl_live = {}
    /\ fl_hist = <<>>
    /\ fl_run = <<>>

BDInit ==
    /\ FLIdle
    /\ CRIdle
    /\ LabIdle
    /\ RCIdle
    /\ \E ar \in BDWorkloads :
          LET st == BDCreate(ar[1], ar[2])
          IN  /\ bd_A = st.A
              /\ bd_base = st.base
              /\ bd_size = st.size
              /\ bd_min_order = st.min_order
              /\ bd_max_order = st.max_order
              /\ bd_free_lists = st.free_lists
              /\ bd_tag = <<>>
              /\ bd_live = {}
              /\ bd_hist = <<BDNoCall, BDNoCall>>
              /\ bd_run = NoRunYet

\* the caller calls allocator_alloc(A, size)
BDAlloc(size) ==
    /\ bd_A # NULL
    /\ bd_hist[1].op # "destroy"
    /\ Cardinality(bd_live) < BDMaxLive
    /\ LET r == BDAllocResult(BDState, size)
           b == r.ret - SizeofUint16
       IN  /\ bd_free_lists' = r.st.free_lists
           /\ bd_tag' = r.st.tag
           /\ bd_live' = IF r.ret = NULL THEN bd_live ELSE bd_live \cup {r.ret}
           /\ bd_hist' = << [op |-> "alloc", arg |-> size, ret |-> r.ret,
                             blk |-> IF r.ret = NULL THEN NULL ELSE b,
                             order |-> IF r.ret = NULL THEN 0 ELSE r.st.tag[b],
                             pre |-> bd_free_lists, before |-> BDSnapshot],
                            bd_hist[1] >>
           /\ bd_run' = RunAfterAlloc(bd_run, size, r.ret)
    /\ UNCHANGED <<bd_A, bd_base, bd_size, bd_min_order, bd_max_order, flvars, crvars, labvars, rcvars>>

\* the caller calls allocator_free(A, ptr) on a pointer it holds, or on NULL
BDFree(ptr) ==
    /\ bd_A # NULL
    /\ bd_hist[1].op # "destroy"
    /\ ptr \in bd_live \cup {NULL}
    /\ LET st == BDFreeResult(BDState, ptr)
           b  == ptr - SizeofUint16
       IN  /\ bd_free_lists' = st.free_lists
           /\ bd_tag' = st.tag
           /\ bd_live' = bd_live \ {ptr}
           /\ bd_hist' = << [op |-> "free", arg |-> ptr, ret |-> NULL,
                             blk |-> IF ptr = NULL THEN NULL ELSE b,
                             order |-> IF ptr = NULL THEN 0 ELSE bd_tag[b],
                             pre |-> bd_free_lists, before |-> BDSnapshot],
                            bd_hist[1] >>
           /\ bd_run' = RunEnded
    /\ UNCHANGED <<bd_A, bd_base, bd_size, bd_min_order, bd_max_order, flvars, crvars, labvars, rcvars>>

\* the caller calls allocator_destroy(A); it makes no call on the handle after
\* that, except allocator_destroy again
BDDestroy ==
    /\ bd_A # NULL
    /\ LET st == BDDestroyResult(BDState)
       IN  /\ bd_base' = st.base
           /\ bd_min_order' = st.min_order
           /\ bd_max_order' = st.max_order
           /\ bd_free_lists' = st.free_lists
           /\ bd_tag' = st.tag
           /\ bd_live' = bd_live
           /\ bd_hist' = << [op |-> "destroy", arg |-> 0, ret |-> NULL, blk |-> NULL,
                             order |-> 0, pre |-> bd_free_lists,
                             before |-> BDSnapshot],
                            bd_hist[1] >>
           /\ bd_run' = RunEnded
    /\ UNCHANGED <<bd_A, bd_size, flvars, crvars, labvars, rcvars>>

BDNext ==
    \/ \E w \in BDWorkloads :
          /\ w[1] = bd_base
          /\ w[2] = bd_size
          /\ \E size \in w[3] : BDAlloc(size)
    \/ \E ptr \in bd_live \cup {NULL} : BDFree(ptr)
    \/ BDDestroy

SpecBD == BDInit /\ [][BDNext]_vars

(***************************************************************************)
(* Either allocator behind the four-operation interface of allocator_api.h *)
(* (the driver loads one of them).                                         *)
(***************************************************************************)
Lab4Init == FLInit \/ BDInit

Lab4Next == FLNext \/ BDNext

SpecLab4 == Lab4Init /\ [][Lab4Next]_vars

(***************************************************************************)
(* allocator_create of either library on arenas of any length, the ones    *)
(* too short for the metadata included.                                    *)
(***************************************************************************)
\* addresses the caller passes: 16-aligned, 8-aligned (what the descriptor's
\* members require)
CRMemories == { 4096, 4104, 4136, 8192 }

\* byte lengths the caller passes
CRSizes == { 0, 8, 16, 23, 24, 40, 47, 48, 64, 543, 544, 600, 607, 608, 609,
             616, 624, 672, 1000, 4096 }

CRNoCall == [lib |-> "none", memory |-> NULL, size |-> 0, outcome |-> "none",
             ret |-> NULL, blocks |-> 0]

\* free_list.c allocator_create(memory, size): what the call may do.  It
\* stores the descriptor at memory and a header at memory + off unchecked: on
\* an arena shorter than off + sizeof(block_header) the stores run past the
\* bytes passed (undefined: the call faults or returns); it returns memory.
FLCreateOutcomes(memory, size) ==
    LET returned == [lib |-> "free_list", memory |-> memory, size |-> size,
                     outcome |-> "returned", ret |-> memory, blocks |-> 1]
        fault    == [returned EXCEPT !.outcome = "fault", !.ret = NULL, !.blocks = 0]
    IN  IF size < FLOff + SizeofBlockHeader THEN {returned, fault} ELSE {returned}

\* mc_kusick.c allocator_create(memory, size): what the call may do.  With
\* size < off the unsigned usable = size - off wraps to a value above 2^63:
\* the test usable < 64 fails, max_order is 20 and the seeding loop stores
\* through the whole address space (undefined: the call faults).
BDCreateOutcomes(memory, size) ==
    LET st       == BDCreate(memory, size)
        returned == [lib |-> "mc_kusick", memory |-> memory, size |-> size,
                     outcome |-> "returned", ret |-> st.A,
                     blocks |-> Len(st.free_lists[st.max_order])]
        fault    == [returned EXCEPT !.outcome = "fault", !.ret = NULL, !.blocks = 0]
    IN  IF size < BDOff THEN {fault} ELSE {returned}

CRInit ==
    /\ FLIdle
    /\ BDIdle
    /\ RCIdle
    /\ LabIdle
    /\ cr = CRNoCall

\* the caller calls the free-list allocator_create(memory, size)
CRCreateFL(memory, size) ==
    /\ cr' \in FLCreateOutcomes(memory, size)
    /\ UNCHANGED <<flvars, bdvars, rcvars, labvars>>

\* the caller calls the buddy allocator_create(memory, size)
CRCreateBD(memory, size) ==
    /\ cr' \in BDCreateOutcomes(memory, size)
    /\ UNCHANGED <<flvars, bdvars, rcvars, labvars>>

CRNext ==
    \/ \E memory \in CRMemories, size \in CRSizes : CRCreateFL(memory, size)
    \/ \E memory \in CRMemories, size \in CRSizes : CRCreateBD(memory, size)

SpecCreate == CRInit /\ [][CRNext]_vars

(***************************************************************************)
(* Two threads calling allocator_alloc on one allocator with no lock (the  *)
(* libraries have none): each C statement of free_list.c lines 23-53, of   *)
(* mc_kusick.c lines 74-102, is one step and the steps of the two calls    *)
(* interleave freely.                                                      *)
(***************************************************************************)
Threads == { 1, 2 }

\* calls each thread makes
RCMaxCalls == 2

\* the arena the threads share
RCArena == <<4096, 248>>

\* the size every call of a run asks for (one size per run: the block
\* addresses of a run then lie need bytes apart and no size_t difference wraps)
RCSizes == { 20, 40 }

Other(t) == CHOOSE u \in Threads : u # t

\* the threads share a free-list allocator
RCInitFL ==
    /\ BDIdle
    /\ CRIdle
    /\ LabIdle
    /\ rc_heap = <<>>
    /\ LET st == FLCreate(RCArena[1], RCArena[2])
       IN  /\ fl_base = st.base
           /\ fl_size = st.size
           /\ fl_free_list = st.free_list
           /\ fl_hdr = st.hdr
    /\ fl_live = {}
    /\ fl_hist = <<FLNoCall, FLNoCall>>
    /\ fl_run = NoRunYet
    /\ rc_pc = [t \in Threads |-> "idle"]
    /\ \E size \in RCSizes :
          rc_loc = [t \in Threads |->
                      [size |-> size, need |-> 0, pp |-> NULL, p |-> NULL, nb |-> NULL]]
    /\ rc_got = [t \in Threads |-> <<>>]
    /\ rc_overlap = FALSE

\* thread t moves to statement pc with locals loc; memory is left alone
RCGoto(t, pc, loc) ==
    /\ rc_pc' = [rc_pc EXCEPT ![t] = pc]
    /\ rc_loc' = [rc_loc EXCEPT ![t] = loc]

RCSame == UNCHANGED <<fl_base, fl_size, fl_hist, fl_run, bdvars, crvars, labvars, rc_heap>>

\* lines 36-38: thread t enters allocator_alloc(a, size), size # 0:
\* need = align_up(size, 16) + sizeof(block_header); pp = &a->free_list
RCCall(t) ==
    /\ fl_base # NULL
    /\ rc_pc[t] = "idle"
    /\ Len(rc_got[t]) < RCMaxCalls
    /\ RCGoto(t, "load_head",
              [rc_loc[t] EXCEPT !.need = FLNeed(rc_loc[t].size), !.pp = NULL,
                                !.p = NULL, !.nb = NULL])
    /\ rc_overlap' = (rc_overlap \/ rc_pc[Other(t)] # "idle")
    /\ UNCHANGED <<fl_free_list, fl_hdr, fl_live, rc_got>>
    /\ RCSame

\* line 39: p = a->free_list
RCLoadHead(t) ==
    /\ rc_pc[t] = "load_head"
    /\ RCGoto(t, "while", [rc_loc[t] EXCEPT !.p = fl_free_list])
    /\ UNCHANGED <<fl_free_list, fl_hdr, fl_live, rc_got, rc_overlap>>
    /\ RCSame

\* line 40: while (p), with p # NULL
RCWhile(t) ==
    /\ rc_pc[t] = "while"
    /\ rc_loc[t].p # NULL
    /\ RCGoto(t, "test", rc_loc[t])
    /\ UNCHANGED <<fl_free_list, fl_hdr, fl_live, rc_got, rc_overlap>>
    /\ RCSame

\* lines 40, 52: while (p) with p = NULL; return NULL
RCReturnNull(t) ==
    /\ rc_pc[t] = "while"
    /\ rc_loc[t].p = NULL
    /\ RCGoto(t, "idle", rc_loc[t])
    /\ rc_got' = [rc_got EXCEPT ![t] = Append(@, NULL)]
    /\ UNCHANGED <<fl_free_list, fl_hdr, fl_live, rc_overlap>>
    /\ RCSame

\* line 41: if (p->free && p->size >= need)
RCTest(t) ==
    /\ rc_pc[t] = "test"
    /\ LET h == fl_hdr[rc_loc[t].p]
       IN  RCGoto(t, IF h.free = 1 /\ h.size >= rc_loc[t].need
                     THEN "split_test" ELSE "advance", rc_loc[t])
    /\ UNCHANGED <<fl_free_list, fl_hdr, fl_live, rc_got, rc_overlap>>
    /\ RCSame

\* lines 49-50: pp = &p->next; p = p->next
RCAdvance(t) ==
    /\ rc_pc[t] = "advance"
    /\ RCGoto(t, "while", [rc_loc[t] EXCEPT !.pp = rc_loc[t].p,
                                           !.p = fl_hdr[rc_loc[t].p].next])
    /\ UNCHANGED <<fl_free_list, fl_hdr, fl_live, rc_got, rc_overlap>>
    /\ RCSame

\* lines 25-26: if (b->size >= need + sizeof(block_header) + 16), nb = b + need
RCSplitTest(t) ==
    /\ rc_pc[t] = "split_test"
    /\ IF fl_hdr[rc_loc[t].p].size >= rc_loc[t].need + SizeofBlockHeader + MinPayload
       THEN RCGoto(t, "nb_size", [rc_loc[t] EXCEPT !.nb = rc_loc[t].p + rc_loc[t].need])
       ELSE RCGoto(t, "mark", rc_loc[t])
    /\ UNCHANGED <<fl_free_list, fl_hdr, fl_live, rc_got, rc_overlap>>
    /\ RCSame

\* a store to one member of the header at address b; the bytes of a header
\* nobody has stored to yet are those of the fresh mapping (zero)
StoreHdr(hdr, b, member, v) ==
    LET old == IF b \in DOMAIN hdr THEN hdr[b] ELSE [size |-> 0, next |-> NULL, free |-> 0]
        new == CASE member = "size" -> [old EXCEPT !.size = v]
                 [] member = "next" -> [old EXCEPT !.next = v]
                 [] member = "free" -> [old EXCEPT !.free = v]
    IN  [a \in DOMAIN hdr \cup {b} |-> IF a = b THEN new ELSE hdr[a]]

\* thread t executes one store to a header and moves to statement pc
RCStore(t, b, member, v, pc) ==
    /\ fl_hdr' = StoreHdr(fl_hdr, b, member, v)
    /\ RCGoto(t, pc, rc_loc[t])
    /\ UNCHANGED <<fl_free_list, fl_live, rc_got, rc_overlap>>
    /\ RCSame

\* line 27: nb->size = b->size - need
RCSplitNbSize(t) ==
    /\ rc_pc[t] = "nb_size"
    /\ RCStore(t, rc_loc[t].nb, "size", fl_hdr[rc_loc[t].p].size - rc_loc[t].need, "nb_next")

\* line 28: nb->next = b->next
RCSplitNbNext(t) ==
    /\ rc_pc[t] = "nb_next"
    /\ RCStore(t, rc_loc[t].nb, "next", fl_hdr[rc_loc[t].p].next, "nb_free")

\* line 29: nb->free = 1
RCSplitNbFree(t) ==
    /\ rc_pc[t] = "nb_free"
    /\ RCStore(t, rc_loc[t].nb, "free", 1, "b_size")

\* line 30 left out: b keeps the size it had before the split
RCSplitSetSize_skipped(t) ==
    /\ rc_pc[t] = "b_size"
    /\ RCGoto(t, "b_next", rc_loc[t])
    /\ UNCHANGED <<fl_free_list, fl_hdr, fl_live, rc_got, rc_overlap>>
    /\ RCSame

\* line 30: b->size = need
RCSplitSetSize(t) ==
    /\ rc_pc[t] = "b_size"
    /\ RCStore(t, rc_loc[t].p, "size", rc_loc[t].need, "b_next")

\* line 31: b->next = nb
RCSplitSetNext(t) ==
    /\ rc_pc[t] = "b_next"
    /\ RCStore(t, rc_loc[t].p, "next", rc_loc[t].nb, "mark")

\* line 43: p->free = 0
RCMark(t) ==
    /\ rc_pc[t] = "mark"
    /\ RCStore(t, rc_loc[t].p, "free", 0, "unlink")

\* line 45: *pp = p->next
RCUnlink(t) ==
    /\ rc_pc[t] = "unlink"
    /\ LET st == StoreLink([free_list |-> fl_free_list, hdr |-> fl_hdr],
                           rc_loc[t].pp, fl_hdr[rc_loc[t].p].next)
       IN  /\ fl_free_list' = st.free_list
           /\ fl_hdr' = st.hdr
    /\ RCGoto(t, "clear", rc_loc[t])
    /\ UNCHANGED <<fl_live, rc_got, rc_overlap>>
    /\ RCSame

\* line 46: p->next = NULL
RCClear(t) ==
    /\ rc_pc[t] = "clear"
    /\ RCStore(t, rc_loc[t].p, "next", NULL, "return")

\* line 47: return (unsigned char*)p + sizeof(block_header)
RCReturn(t) ==
    /\ rc_pc[t] = "return"
    /\ RCGoto(t, "idle", rc_loc[t])
    /\ rc_got' = [rc_got EXCEPT ![t] = Append(@, rc_loc[t].p + SizeofBlockHeader)]
    /\ fl_live' = fl_live \cup {rc_loc[t].p + SizeofBlockHeader}
    /\ UNCHANGED <<fl_free_list, fl_hdr, rc_overlap>>
    /\ RCSame

RCNextFL ==
    \E t \in Threads :
        \/ RCCall(t)
        \/ RCLoadHead(t)
        \/ RCWhile(t)
        \/ RCReturnNull(t)
        \/ RCTest(t)
        \/ RCAdvance(t)
        \/ RCSplitTest(t)
        \/ RCSplitNbSize(t)
        \/ RCSplitNbNext(t)
        \/ RCSplitNbFree(t)
        \/ RCSplitSetSize(t)
        \/ RCSplitSetNext(t)
        \/ RCMark(t)
        \/ RCUnlink(t)
        \/ RCClear(t)
        \/ RCReturn(t)

\* the buddy arena the threads share, and the sizes a run asks for (the
\* largest is above 2^max_order - 2)
KArena == <<4096, 8192>>

KSizes == { 2000, 4000, 5000 }

TagMod == 65536    \* 2^16: the tag is the low half-word of the block's first word

\* the list as the memory holds it: each node's first word is its next pointer
ListWords(list) ==
    [b \in { list[i] : i \in 1..Len(list) } |->
        LET i == CHOOSE j \in 1..Len(list) : list[j] = b
        IN  IF i < Len(list) THEN list[i + 1] ELSE NULL]

\* the threads share a buddy allocator
RCInitBD ==
    /\ FLIdle
    /\ BDIdle
    /\ CRIdle
    /\ LabIdle
    /\ LET st == BDCreate(KArena[1], KArena[2])
       IN  rc_heap = [base |-> st.base, size |-> st.size,
                      min_order |-> st.min_order, max_order |-> st.max_order,
                      head |-> [k \in 0..(NumLists - 1) |->
                                  IF st.free_lists[k] = <<>> THEN NULL
                                  ELSE Head(st.free_lists[k])],
                      word |-> ListWords(st.free_lists[st.max_order])]
    /\ rc_pc = [t \in Threads |-> "idle"]
    /\ \E size \in KSizes :
          rc_loc = [t \in Threads |->
                      [size |-> size, k |-> 0, cur |-> 0, block |-> NULL, buddy |-> NULL]]
    /\ rc_got = [t \in Threads |-> <<>>]
    /\ rc_overlap = FALSE

KSame == UNCHANGED <<flvars, bdvars, crvars, labvars>>

\* the eight bytes at address a belong to the memory passed to create
Accessible(a) == rc_heap.base <= a /\ a + 8 <= rc_heap.base + rc_heap.size

\* the word at address a; a word nobody has stored to yet is that of the
\* fresh mapping (zero)
LoadWord(a) == IF a \in DOMAIN rc_heap.word THEN rc_heap.word[a] ELSE 0

\* the words after storing v at address a
StoreWord(a, v) ==
    [b \in DOMAIN rc_heap.word \cup {a} |-> IF b = a THEN v ELSE rc_heap.word[b]]

\* a store or load outside the mapping: the process is killed
KFault ==
    /\ rc_pc' = [t \in Threads |-> "fault"]
    /\ UNCHANGED <<rc_loc, rc_got, rc_overlap, rc_heap>>
    /\ KSame

\* lines 83-86: thread t enters allocator_alloc(A, size), size # 0:
\* k = order_for(size, A->min_order); if (k > A->max_order) return NULL; cur = k
KCall(t) ==
    /\ rc_heap # <<>>
    /\ rc_pc[t] = "idle"
    /\ Len(rc_got[t]) < RCMaxCalls
    /\ LET k == order_for(rc_loc[t].size, rc_heap.min_order)
       IN  IF k > rc_heap.max_order
           THEN /\ rc_got' = [rc_got EXCEPT ![t] = Append(@, NULL)]
                /\ UNCHANGED <<rc_pc, rc_loc>>
           ELSE /\ RCGoto(t, "k_scan", [rc_loc[t] EXCEPT !.k = k, !.cur = k,
                                                         !.block = NULL, !.buddy = NULL])
                /\ UNCHANGED rc_got
    /\ rc_overlap' = (rc_overlap \/ rc_pc[Other(t)] # "idle")
    /\ UNCHANGED rc_heap
    /\ KSame

\* line 87: while (cur <= A->max_order && A->free_lists[cur] == NULL) cur++
KScan(t) ==
    /\ rc_pc[t] = "k_scan"
    /\ IF rc_loc[t].cur <= rc_heap.max_order /\ rc_heap.head[rc_loc[t].cur] = NULL
       THEN RCGoto(t, "k_scan", [rc_loc[t] EXCEPT !.cur = @ + 1])
       ELSE RCGoto(t, "k_check", rc_loc[t])
    /\ UNCHANGED <<rc_got, rc_overlap, rc_heap>>
    /\ KSame

\* line 88: if (cur > A->max_order) return NULL
KCheck(t) ==
    /\ rc_pc[t] = "k_check"
    /\ IF rc_loc[t].cur > rc_heap.max_order
       THEN /\ RCGoto(t, "idle", rc_loc[t])
            /\ rc_got' = [rc_got EXCEPT ![t] = Append(@, NULL)]
       ELSE /\ RCGoto(t, "k_pop_read", rc_loc[t])
            /\ UNCHANGED rc_got
    /\ UNCHANGED <<rc_overlap, rc_heap>>
    /\ KSame

\* lines 75, 90: list_pop, FreeNode *n = *head
KPopRead(t) ==
    /\ rc_pc[t] = "k_pop_read"
    /\ RCGoto(t, "k_pop_write", [rc_loc[t] EXCEPT !.block = rc_heap.head[rc_loc[t].cur]])
    /\ UNCHANGED <<rc_got, rc_overlap, rc_heap>>
    /\ KSame

\* line 75: list_pop, if (n) *head = n->next
KPopWrite(t) ==
    /\ rc_pc[t] = "k_pop_write"
    /\ LET n == rc_loc[t].block
       IN  IF n = NULL
           THEN /\ RCGoto(t, "k_split", rc_loc[t])
                /\ UNCHANGED <<rc_got, rc_overlap, rc_heap>>
                /\ KSame
           ELSE IF ~Accessible(n)
           THEN KFault
           ELSE /\ rc_heap' = [rc_heap EXCEPT !.head[rc_loc[t].cur] = LoadWord(n)]
                /\ RCGoto(t, "k_split", rc_loc[t])
                /\ UNCHANGED <<rc_got, rc_overlap>>
                /\ KSame

\* lines 92-95: while (cur > k) { cur--; buddy = block + pow2(cur);
KSplit(t) ==
    /\ rc_pc[t] = "k_split"
    /\ IF rc_loc[t].cur > rc_loc[t].k
       THEN RCGoto(t, "k_push_next",
                   [rc_loc[t] EXCEPT !.cur = @ - 1,
                                     !.buddy = rc_loc[t].block + pow2(rc_loc[t].cur - 1)])
       ELSE RCGoto(t, "k_tag", rc_loc[t])
    /\ UNCHANGED <<rc_got, rc_overlap, rc_heap>>
    /\ KSame

\* lines 74, 96: list_push, n->next = *head
KPushNext(t) ==
    /\ rc_pc[t] = "k_push_next"
    /\ IF ~Accessible(rc_loc[t].buddy)
       THEN KFault
       ELSE /\ rc_heap' = [rc_heap EXCEPT
                              !.word = StoreWord(rc_loc[t].buddy, rc_heap.head[rc_loc[t].cur])]
            /\ RCGoto(t, "k_push_head", rc_loc[t])
            /\ UNCHANGED <<rc_got, rc_overlap>>
            /\ KSame

\* line 74: list_push, *head = n
KPushHead(t) ==
    /\ rc_pc[t] = "k_push_head"
    /\ rc_heap' = [rc_heap EXCEPT !.head[rc_loc[t].cur] = rc_loc[t].buddy]
    /\ RCGoto(t, "k_split", rc_loc[t])
    /\ UNCHANGED <<rc_got, rc_overlap>>
    /\ KSame

\* line 100: *hdr = (uint16_t)k, the low half-word of the block's first word
KTag(t) ==
    /\ rc_pc[t] = "k_tag"
    /\ IF ~Accessible(rc_loc[t].block)
       THEN KFault
       ELSE /\ rc_heap' = [rc_heap EXCEPT
                              !.word = StoreWord(rc_loc[t].block,
                                                 LoadWord(rc_loc[t].block)
                                                   - (LoadWord(rc_loc[t].block) % TagMod)
                                                   + rc_loc[t].k)]
            /\ RCGoto(t, "k_return", rc_loc[t])
            /\ UNCHANGED <<rc_got, rc_overlap>>
            /\ KSame

\* line 101: return block + sizeof(uint16_t)
KReturn(t) ==
    /\ rc_pc[t] = "k_return"
    /\ RCGoto(t, "idle", rc_loc[t])
    /\ rc_got' = [rc_got EXCEPT ![t] = Append(@, rc_loc[t].block + SizeofUint16)]
    /\ UNCHANGED <<rc_overlap, rc_heap>>
    /\ KSame

RCNextBD ==
    \E t \in Threads :
        \/ KCall(t)
        \/ KScan(t)
        \/ KCheck(t)
        \/ KPopRead(t)
        \/ KPopWrite(t)
        \/ KSplit(t)
        \/ KPushNext(t)
        \/ KPushHead(t)
        \/ KTag(t)
        \/ KReturn(t)

RCInit == RCInitFL \/ RCInitBD

RCNext == RCNextFL \/ RCNextBD

SpecRace == RCInit /\ [][RCNext]_vars

(***************************************************************************)
(* Claims about the buddy allocator (checked under SpecBD).                *)
(***************************************************************************)
\* the <<address, order>> pairs held on the given free lists
BDPairs(lists) ==
    UNION { { <<lists[k][i], k>> : i \in 1..Len(lists[k]) } : k \in DOMAIN lists }

\* the <<address, order>> pairs of the live blocks
BDLivePairs == { <<p - SizeofUint16, bd_tag[p - SizeofUint16]>> : p \in bd_live }

BDDisjoint(x, y) == x[1] + pow2(x[2]) <= y[1] \/ y[1] + pow2(y[2]) <= x[1]

RECURSIVE BDSumPairs(_)
BDSumPairs(pairs) ==
    IF pairs = {}
    THEN 0
    ELSE LET x == CHOOSE y \in pairs : TRUE
         IN  pow2(x[2]) + BDSumPairs(pairs \ {x})

RECURSIVE BDSumList(_, _)
\* sum of 2^k over the nodes of list k, node by node
BDSumList(list, k) ==
    IF list = <<>> THEN 0 ELSE pow2(k) + BDSumList(Tail(list), k)

RECURSIVE BDSumLists(_, _)
BDSumLists(lists, k) ==
    IF k < 0 THEN 0 ELSE BDSumList(lists[k], k) + BDSumLists(lists, k - 1)

\* the aligned start of the working arena of the allocator in use
BDArena == BDAligned(bd_base, bd_max_order)

\* C2: the blocks [b, b + 2^order) of the live allocations are pairwise
\* disjoint, disjoint from every block on a free list, start after the
\* Allocator descriptor and end inside [memory, memory + size).
C2_BDNonOverlap ==
    bd_A # NULL =>
        /\ \A x \in BDLivePairs :
              /\ x[1] >= bd_base + SizeofAllocatorBD
              /\ x[1] + pow2(x[2]) <= bd_base + bd_size
        /\ \A x, y \in BDLivePairs : x # y => BDDisjoint(x, y)
        /\ \A x \in BDLivePairs : \A y \in BDPairs(bd_free_lists) : BDDisjoint(x, y)

\* live blocks of different orders next to free blocks, after a free that
\* merged, in the arena whose memory is no multiple of 2^max_order
C2_Witness ==
    /\ bd_A # NULL
    /\ bd_base % pow2(bd_max_order) # 0
    /\ Cardinality(bd_live) >= 2
    /\ \E x, y \in BDLivePairs : x[2] # y[2]
    /\ bd_hist[1].op = "free"
    /\ Len(bd_free_lists[bd_hist[1].order]) < Len(bd_hist[1].pre[bd_hist[1].order])

\* C3: sum of 2^order over the free blocks + sum of 2^order over the live
\* blocks = (number of blocks create seeded) * 2^max_order.
C3_BDConservation ==
    bd_A # NULL =>
        BDSumLists(bd_free_lists, NumLists - 1) + BDSumPairs(BDLivePairs)
            = BDBlocks(bd_base, bd_size, bd_max_order) * pow2(bd_max_order)

\* C5: every block of order k that is live or on free list k starts at an
\* offset from the aligned arena start that is a multiple of 2^k.
C5_BDAlignment ==
    bd_A # NULL =>
        \A x \in BDLivePairs \cup BDPairs(bd_free_lists) :
            (x[1] - BDArena) % pow2(x[2]) = 0

\* C6: two live blocks of order k < max_order that are the halves of one
\* order-(k+1) block, whose own buddy is not free, freed one right after the
\* other: neither is on list k, the lower address is on list k+1 once.
C6_Pair ==
    /\ bd_A # NULL
    /\ bd_hist[1].op = "free"
    /\ bd_hist[2].op = "free"
    /\ bd_hist[1].arg # NULL
    /\ bd_hist[2].arg # NULL
    /\ LET x  == bd_hist[2]
           y  == bd_hist[1]
           k  == x.order
           lo == IF x.blk < y.blk THEN x.blk ELSE y.blk
           hi == IF x.blk < y.blk THEN y.blk ELSE x.blk
       IN  /\ y.order = k
           /\ k < bd_max_order
           /\ (lo - BDArena) % pow2(k + 1) = 0
           /\ hi = lo + pow2(k)
           /\ \/ k + 1 = bd_max_order
              \/ ~list_has(x.pre[k + 1], BDArena + xor_pow2(lo - BDArena, k + 1))

\* C6 (formula): after such a pair of frees neither half is on list k and the
\* lower address is on list k+1 exactly once.
C6_BDCoalescePair ==
    C6_Pair =>
        LET x  == bd_hist[2]
            y  == bd_hist[1]
            k  == x.order
            lo == IF x.blk < y.blk THEN x.blk ELSE y.blk
            hi == IF x.blk < y.blk THEN y.blk ELSE x.blk
        IN  /\ ~list_has(bd_free_lists[k], lo)
            /\ ~list_has(bd_free_lists[k], hi)
            /\ Len(SelectSeq(bd_free_lists[k + 1], LAMBDA a : a = lo)) = 1
            /\ ~list_has(bd_free_lists[k + 1], hi)

\* C8: a successful alloc followed at once by free of the returned pointer
\* leaves the set of <<address, order>> pairs on the free lists as it was.
C8_RoundTrip ==
    /\ bd_A # NULL
    /\ bd_hist[1].op = "free"
    /\ bd_hist[2].op = "alloc"
    /\ bd_hist[2].ret # NULL
    /\ bd_hist[2].ret = bd_hist[1].arg

\* C8 (formula): after alloc then free of its pointer the <<address, order>>
\* pairs on the free lists equal those recorded before the alloc.
C8_BDRoundTrip ==
    C8_RoundTrip => BDPairs(bd_free_lists) = BDPairs(bd_hist[2].pre)

\* C12: on a fresh buddy allocator that seeded B max_order blocks, repeated
\* alloc(s), s > 0, of order k <= max_order (k the smallest k >= min_order
\* with 2^k >= s + 2) returns a pointer B * 2^(max_order - k) times and NULL on
\* the next call, never earlier.
C12_Order(s) ==
    CHOOSE k \in bd_min_order..(MaxOrderCap + 1) :
        /\ pow2(k) >= s + SizeofUint16
        /\ \A j \in bd_min_order..(k - 1) : pow2(j) < s + SizeofUint16

C12_Expected(s) ==
    BDBlocks(bd_base, bd_size, bd_max_order) * pow2(bd_max_order - C12_Order(s))

C12_BDExhaustion ==
    (bd_A # NULL /\ bd_run.pure /\ bd_run.size # 0
        /\ C12_Order(bd_run.size) <= bd_max_order) =>
        /\ bd_run.n <= C12_Expected(bd_run.size)
        /\ bd_run.failed => bd_run.n = C12_Expected(bd_run.size)

\* at least two max_order blocks were seeded, two or more allocations were
\* handed out and the next call returned NULL
C12_Witness ==
    /\ bd_A # NULL
    /\ bd_run.pure
    /\ bd_run.failed
    /\ bd_run.n >= 2
    /\ BDBlocks(bd_base, bd_size, bd_max_order) >= 2

(***************************************************************************)
(* Claims about both allocators (checked under SpecLab4).                  *)
(***************************************************************************)
\* the free-list allocator's last call was op
FLCalled(op) == fl_base # NULL /\ fl_hist[1].op = op

\* the buddy allocator's last call was op
BDCalled(op) == bd_A # NULL /\ bd_hist[1].op = op

\* the last call left the free-list descriptor, every header and the caller's
\* pointers as they were before it
FLFrame == FLSnapshot = fl_hist[1].before

\* the last call left the buddy descriptor, every free list, every tag and
\* the caller's pointers as they were before it
BDFrame == BDSnapshot = bd_hist[1].before

\* C11: an allocator_alloc(size), size > 0, that returns NULL leaves every
\* free list, every block header and the descriptor as they were, in either
\* allocator.
C11_FailedAllocFrame ==
    /\ (FLCalled("alloc") /\ fl_hist[1].arg # 0 /\ fl_hist[1].ret = NULL) => FLFrame
    /\ (BDCalled("alloc") /\ bd_hist[1].arg # 0 /\ bd_hist[1].ret = NULL) => BDFrame

\* a buddy alloc of an order within max_order failed while smaller free
\* blocks were on the lists
C11_Witness ==
    /\ bd_A # NULL
    /\ bd_hist[1].op = "alloc"
    /\ bd_hist[1].arg # 0
    /\ bd_hist[1].ret = NULL
    /\ order_for(bd_hist[1].arg, bd_min_order) <= bd_max_order
    /\ BDPairs(bd_free_lists) # {}
    /\ bd_live # {}

\* C16: a successful alloc(size) returns the address just past the header (tag)
\* of a block with block.size - sizeof(block_header) >= size (free-list),
\* 2^order - 2 >= size (buddy).
C16_PayloadFits ==
    /\ (fl_base # NULL /\ fl_hist[1].op = "alloc" /\ fl_hist[1].ret # NULL) =>
          /\ fl_hist[1].ret = fl_hist[1].blk + SizeofBlockHeader
          /\ fl_hist[1].bsize - SizeofBlockHeader >= fl_hist[1].arg
          /\ fl_hist[1].bsize = fl_hdr[fl_hist[1].blk].size
    /\ (bd_A # NULL /\ bd_hist[1].op = "alloc" /\ bd_hist[1].ret # NULL) =>
          /\ bd_hist[1].ret = bd_hist[1].blk + SizeofUint16
          /\ pow2(bd_hist[1].order) - SizeofUint16 >= bd_hist[1].arg
          /\ bd_hist[1].order = bd_tag[bd_hist[1].blk]

\* a free-list alloc(40) was served by a block found after the head of the list
C16_Witness ==
    /\ fl_base # NULL
    /\ fl_hist[1].op = "alloc"
    /\ fl_hist[1].ret # NULL
    /\ fl_hist[1].arg = 40
    /\ fl_hist[1].pre[1][1] # fl_hist[1].blk

\* C18: allocator_alloc(a, 0) returns NULL and leaves every free list and
\* block header unchanged, in either allocator.
C18_AllocZero ==
    /\ (FLCalled("alloc") /\ fl_hist[1].arg = 0) => (fl_hist[1].ret = NULL /\ FLFrame)
    /\ (BDCalled("alloc") /\ bd_hist[1].arg = 0) => (bd_hist[1].ret = NULL /\ BDFrame)

\* alloc(0) was called on a free-list allocator with live and free blocks
C18_Witness ==
    /\ fl_base # NULL
    /\ fl_hist[1].op = "alloc"
    /\ fl_hist[1].arg = 0
    /\ fl_live # {}
    /\ Len(FLList) >= 2

\* C19: allocator_free(a, NULL) leaves every free list, every block header and
\* the set of live allocations unchanged, in either allocator.
C19_FreeNull ==
    /\ (FLCalled("free") /\ fl_hist[1].arg = NULL) => FLFrame
    /\ (BDCalled("free") /\ bd_hist[1].arg = NULL) => BDFrame

\* free(NULL) was called on a buddy allocator with live and free blocks
C19_Witness ==
    /\ bd_A # NULL
    /\ bd_hist[1].op = "free"
    /\ bd_hist[1].arg = NULL
    /\ bd_live # {}
    /\ BDPairs(bd_free_lists) # {}

\* C20: allocator_destroy leaves free lists, block headers and live
\* allocations as they were, in either allocator, however often it is called.
C20_DestroyFrame ==
    /\ FLCalled("destroy") => FLFrame
    /\ BDCalled("destroy") => BDFrame

\* destroy was called twice in a row on a free-list allocator with live blocks
C20_Witness ==
    /\ fl_base # NULL
    /\ fl_hist[1].op = "destroy"
    /\ fl_hist[2].op = "destroy"
    /\ fl_live # {}
    /\ FLList # <<>>

(***************************************************************************)
(* Claims about allocator_create (checked under SpecCreate).               *)
(***************************************************************************)
\* what is left of the arena after the descriptor and the padding up to the
\* next multiple of 2^max_order
C14_Rest(memory, size) ==
    LET usable    == size - align_up(SizeofAllocatorBD, CreateAlign)
        max_order == BDMaxOrderLoop(usable, 0)
        arena     == memory + align_up(SizeofAllocatorBD, CreateAlign)
        pad       == (pow2(max_order) - (arena % pow2(max_order))) % pow2(max_order)
    IN  usable - pad

\* C14: buddy allocator_create returns NULL whenever the usable space left
\* after the descriptor and the alignment padding is below 2^min_order bytes,
\* whenever max_order < min_order, and for every size below the descriptor's.
C14_BDCreateFails ==
    (/\ cr.lib = "mc_kusick"
     /\ \/ cr.size < SizeofAllocatorBD
        \/ C14_Rest(cr.memory, cr.size) < pow2(BDMinOrder)
        \/ BDMaxOrderLoop(cr.size - BDOff, 0) < BDMinOrder)
    => (cr.outcome = "returned" /\ cr.ret = NULL)

\* C15: free-list allocator_create returns NULL when size is smaller than the
\* descriptor plus one block header.
C15_FLCreateFails ==
    (cr.lib = "free_list" /\ cr.size < FLOff + SizeofBlockHeader)
    => (cr.outcome = "returned" /\ cr.ret = NULL)

\* C31: whenever buddy allocator_create returns a handle, for every arena
\* size and every alignment of the base, the max_order free list holds at
\* least one block and allocator_alloc(1) on the fresh allocator succeeds.
C31_BDCreateUsable ==
    (cr.lib = "mc_kusick" /\ cr.outcome = "returned" /\ cr.ret # NULL) =>
        LET st == [tag |-> <<>>] @@ BDCreate(cr.memory, cr.size)
        IN  /\ cr.blocks >= 1
            /\ st.free_lists[st.max_order] # <<>>
            /\ BDAllocResult(st, 1).ret # NULL

\* C31 on the arenas where a whole max_order block is left after the padding
C31_WhenABlockFits ==
    C14_Rest(cr.memory, cr.size) >= pow2(BDMaxOrderLoop(cr.size - BDOff, 0))
        => C31_BDCreateUsable

(***************************************************************************)
(* Claim about concurrent calls (checked under SpecRace).                  *)
(***************************************************************************)
\* the calls that returned a pointer: <<thread, index of the call>>
RCCalls ==
    { c \in Threads \X (1..RCMaxCalls) :
        c[2] <= Len(rc_got[c[1]]) /\ rc_got[c[1]][c[2]] # NULL }

\* the block call c was given: its first byte and the end of its bytes
\* (free-list: header address and size member; buddy: tag address and 2^tag)
RCBlock(c) ==
    IF fl_base # NULL
    THEN ptr_to_block(rc_got[c[1]][c[2]])
    ELSE rc_got[c[1]][c[2]] - SizeofUint16

RCBlockEnd(c) ==
    IF fl_base # NULL
    THEN RCBlock(c) + fl_hdr[RCBlock(c)].size
    ELSE RCBlock(c) + pow2(LoadWord(RCBlock(c)) % TagMod)

\* C17: when the calls of the two threads never overlap in time (every call
\* runs atomically), no two calls are given the same block: the blocks
\* returned are pairwise disjoint.  With interleaved statements two
\* allocator_alloc calls can return the same block (C17_Witness).
C17_SerialCallsDisjoint ==
    ~rc_overlap =>
        \A c, d \in RCCalls :
            c # d => (RCBlockEnd(c) <= RCBlock(d) \/ RCBlockEnd(d) <= RCBlock(c))

\* two buddy calls that ran interleaved returned the same pointer
C17_WitnessBD ==
    /\ rc_heap # <<>>
    /\ rc_overlap
    /\ Len(rc_got[1]) >= 1
    /\ Len(rc_got[2]) >= 1
    /\ rc_got[1][1] # NULL
    /\ rc_got[1][1] = rc_got[2][1]

\* two free-list calls that ran interleaved returned the same pointer
C17_Witness ==
    /\ fl_base # NULL
    /\ rc_overlap
    /\ Len(rc_got[1]) >= 1
    /\ Len(rc_got[2]) >= 1
    /\ rc_got[1][1] # NULL
    /\ rc_got[1][1] = rc_got[2][1]

(***************************************************************************)
(* Further claims about the buddy allocator (checked under SpecBD).        *)
(***************************************************************************)
\* the blocks the last allocator_free went through, with their orders
C21_Steps ==
    BDFreeSteps(bd_hist[1].pre, bd_base, bd_max_order, bd_hist[1].blk, bd_hist[1].order)

\* the other half of the order-(k+1) block that block is a half of: the
\* address that differs in bit k of the offset from the aligned arena start
C21_TrueBuddy(block, k) == BDArena + xor_pow2(block - BDArena, k)

\* C21: for every block of order k < max_order that allocator_free goes
\* through, whatever base was passed to create, the address
\* base + ((block - base) XOR 2^k) it looks for is the block's true buddy.
C21_BDBuddyAddress ==
    (bd_A # NULL /\ bd_hist[1].op = "free" /\ bd_hist[1].arg # NULL) =>
        \A i \in 1..Len(C21_Steps) :
            C21_Steps[i][2] < bd_max_order =>
                BDBuddy(bd_base, C21_Steps[i][1], C21_Steps[i][2])
                    = C21_TrueBuddy(C21_Steps[i][1], C21_Steps[i][2])

\* C21 on the arenas whose base is a multiple of 2^max_order
C21_OnAlignedBase ==
    bd_base % pow2(bd_max_order) = 0 => C21_BDBuddyAddress

\* C28: alloc(s), s > 0, serves the request from order k = the smallest
\* k >= min_order with 2^k >= s + 2 (alloc(20): order 5), writes k into the tag
\* at the block start and returns block + 2; when k > max_order it returns
\* NULL and touches no free list.
C28_BDOrderSelection ==
    (bd_A # NULL /\ bd_hist[1].op = "alloc" /\ bd_hist[1].arg # 0) =>
        LET k == C12_Order(bd_hist[1].arg)
        IN  /\ k > bd_max_order => (bd_hist[1].ret = NULL /\ BDFrame)
            /\ bd_hist[1].ret # NULL =>
                  /\ bd_tag[bd_hist[1].blk] = k
                  /\ bd_hist[1].ret = bd_hist[1].blk + SizeofUint16
                  /\ bd_hist[1].arg = 20 => k = 5

\* alloc(20) was served by a block of order 5 split off a larger one
C28_Witness ==
    /\ bd_A # NULL
    /\ bd_hist[1].op = "alloc"
    /\ bd_hist[1].arg = 20
    /\ bd_hist[1].ret # NULL
    /\ bd_tag[bd_hist[1].blk] = 5
    /\ bd_live # {bd_hist[1].ret}

\* a request that fits 2^max_order only without its tag was refused
C28_WitnessTag ==
    /\ bd_A # NULL
    /\ bd_hist[1].op = "alloc"
    /\ bd_hist[1].ret = NULL
    /\ bd_hist[1].arg + 1 = pow2(bd_max_order)
    /\ bd_hist[1].pre[bd_max_order] # <<>>

\* the smallest order >= k whose list was non-empty before the call
C29_Cur(pre, k) ==
    CHOOSE cur \in k..bd_max_order :
        /\ pre[cur] # <<>>
        /\ \A o \in k..(cur - 1) : pre[o] = <<>>

\* C29: a successful alloc of order k pops the head of the list of the
\* smallest order cur >= k that is non-empty, returns that block's start (the
\* lower half at every split), adds exactly one block, the upper half
\* block + 2^o, at the head of each list o in k..cur-1, and leaves every other
\* list unchanged.
C29_BDSplitRule ==
    (bd_A # NULL /\ bd_hist[1].op = "alloc" /\ bd_hist[1].ret # NULL) =>
        LET pre == bd_hist[1].pre
            k   == bd_hist[1].order
            cur == C29_Cur(pre, k)
            blk == bd_hist[1].blk
        IN  /\ \E c \in k..bd_max_order : pre[c] # <<>>
            /\ blk = Head(pre[cur])
            /\ bd_free_lists[cur] = Tail(pre[cur])
            /\ \A o \in k..(cur - 1) :
                  bd_free_lists[o] = <<blk + pow2(o)>> \o pre[o]
            /\ \A o \in DOMAIN bd_free_lists :
                  (o < k \/ o > cur) => bd_free_lists[o] = pre[o]

\* a block two or more orders above the request was split while a list
\* outside k..cur held a block, which stayed where it was
C29_Witness ==
    /\ bd_A # NULL
    /\ bd_hist[1].op = "alloc"
    /\ bd_hist[1].ret # NULL
    /\ C29_Cur(bd_hist[1].pre, bd_hist[1].order) >= bd_hist[1].order + 2
    /\ \E o \in DOMAIN bd_free_lists :
          /\ o > C29_Cur(bd_hist[1].pre, bd_hist[1].order)
          /\ bd_hist[1].pre[o] # <<>>
          /\ bd_free_lists[o] = bd_hist[1].pre[o]

\* an order-(k+1) block of the arena both of whose halves are on list k
C30_UnmergedPair(lists) ==
    \E k \in DOMAIN lists : \E i, j \in 1..Len(lists[k]) :
        /\ k < bd_max_order
        /\ (lists[k][i] - BDArena) % pow2(k + 1) = 0
        /\ lists[k][j] = lists[k][i] + pow2(k)

\* C30: whatever base was passed to create, while the handle is live no list
\* k < max_order holds both halves of one order-(k+1) block, no address is on
\* two lists or twice on one list, and no list of an order below min_order or
\* above max_order holds a block.
C30_BDFullyMerged ==
    bd_A # NULL =>
        /\ ~C30_UnmergedPair(bd_free_lists)
        /\ \A k \in DOMAIN bd_free_lists : \A i, j \in 1..Len(bd_free_lists[k]) :
              i # j => bd_free_lists[k][i] # bd_free_lists[k][j]
        /\ \A k, l \in DOMAIN bd_free_lists :
              \A i \in 1..Len(bd_free_lists[k]) : \A j \in 1..Len(bd_free_lists[l]) :
                  k # l => bd_free_lists[k][i] # bd_free_lists[l][j]
        /\ \A k \in DOMAIN bd_free_lists :
              (k < bd_min_order \/ k > bd_max_order) => bd_free_lists[k] = <<>>

\* C30 on the arenas whose base is a multiple of 2^max_order
C30_OnAlignedBase ==
    bd_base % pow2(bd_max_order) = 0 => C30_BDFullyMerged

(***************************************************************************)
(* src/lab2/bitonic.c, MODE_SYNC: the mutex / condition-variable barrier.  *)
(* n threads call barrier_wait on one barrier again and again.  A step is  *)
(* one statement of barrier_wait; pthread_cond_wait releases the mutex,    *)
(* blocks until the broadcast (or a spurious wake-up, which POSIX allows)  *)
(* and takes the mutex again before it returns.                            *)
(***************************************************************************)
\* the largest n a barrier is initialised with
SBMaxThreads == 3

\* barrier_wait calls each thread makes
SBMaxRounds == 2

SBThreads == 1..sb_n

\* what is not the barrier's
SBOthers == <<lab4vars, abvars, btvars, mcvars, shvars>>

\* barrier_init(b, n): count = 0, trip = 0, mutex free, nobody waiting
SBInit ==
    /\ FLIdle
    /\ BDIdle
    /\ CRIdle
    /\ RCIdle
    /\ ABIdle
    /\ BTIdle
    /\ MCIdle
    /\ SHIdle
    /\ sb_n \in 1..SBMaxThreads
    /\ sb_count = 0
    /\ sb_trip = 0
    /\ sb_m = 0
    /\ sb_cv = {}
    /\ sb_pc = [t \in SBThreads |-> "idle"]
    /\ sb_loc = [t \in SBThreads |-> 0]
    /\ sb_calls = [t \in SBThreads |-> 0]

\* thread t calls barrier_wait(b)
SBCall(t) ==
    /\ sb_pc[t] = "idle"
    /\ sb_calls[t] < SBMaxRounds
    /\ sb_pc' = [sb_pc EXCEPT ![t] = "lock"]
    /\ sb_calls' = [sb_calls EXCEPT ![t] = @ + 1]
    /\ UNCHANGED <<sb_n, sb_count, sb_trip, sb_m, sb_cv, sb_loc, SBOthers>>

\* pthread_mutex_lock(&b->m)
SBLock(t) ==
    /\ sb_pc[t] = "lock"
    /\ sb_m = 0
    /\ sb_m' = t
    /\ sb_pc' = [sb_pc EXCEPT ![t] = "arrive"]
    /\ UNCHANGED <<sb_n, sb_count, sb_trip, sb_cv, sb_loc, sb_calls, SBOthers>>

\* int trip = b->trip; if (++b->count == b->n)
SBArrive(t) ==
    /\ sb_pc[t] = "arrive"
    /\ sb_loc' = [sb_loc EXCEPT ![t] = sb_trip]
    /\ sb_count' = sb_count + 1
    /\ sb_pc' = [sb_pc EXCEPT ![t] = IF sb_count + 1 = sb_n THEN "trip" ELSE "check"]
    /\ UNCHANGED <<sb_n, sb_trip, sb_m, sb_cv, sb_calls, SBOthers>>

\* the last thread without pthread_cond_broadcast: the waiters stay blocked
SBTrip_no_broadcast(t) ==
    /\ sb_pc[t] = "trip"
    /\ sb_trip' = sb_trip + 1
    /\ sb_count' = 0
    /\ sb_pc' = [sb_pc EXCEPT ![t] = "unlock"]
    /\ UNCHANGED <<sb_n, sb_m, sb_cv, sb_loc, sb_calls, SBOthers>>

\* b->trip++; b->count = 0; pthread_cond_broadcast(&b->cv): every thread
\* blocked on cv is woken and goes on to take the mutex again
SBTrip(t) ==
    /\ sb_pc[t] = "trip"
    /\ sb_trip' = sb_trip + 1
    /\ sb_count' = 0
    /\ sb_cv' = {}
    /\ sb_pc' = [u \in SBThreads |-> IF u = t THEN "unlock"
                                     ELSE IF u \in sb_cv THEN "relock"
                                     ELSE sb_pc[u]]
    /\ UNCHANGED <<sb_n, sb_m, sb_loc, sb_calls, SBOthers>>

\* while (trip == b->trip) pthread_cond_wait(&b->cv, &b->m): the test, and
\* the first half of the wait (the mutex is released, the thread blocks)
SBCheck(t) ==
    /\ sb_pc[t] = "check"
    /\ IF sb_loc[t] = sb_trip
       THEN /\ sb_m' = 0
            /\ sb_cv' = sb_cv \cup {t}
            /\ sb_pc' = [sb_pc EXCEPT ![t] = "wait"]
       ELSE /\ sb_pc' = [sb_pc EXCEPT ![t] = "unlock"]
            /\ UNCHANGED <<sb_m, sb_cv>>
    /\ UNCHANGED <<sb_n, sb_count, sb_trip, sb_loc, sb_calls, SBOthers>>

\* a spurious wake-up of a thread blocked in pthread_cond_wait
SBSpurious(t) ==
    /\ sb_pc[t] = "wait"
    /\ sb_cv' = sb_cv \ {t}
    /\ sb_pc' = [sb_pc EXCEPT ![t] = "relock"]
    /\ UNCHANGED <<sb_n, sb_count, sb_trip, sb_m, sb_loc, sb_calls, SBOthers>>

\* the second half of pthread_cond_wait: the woken thread takes the mutex
SBRelock(t) ==
    /\ sb_pc[t] = "relock"
    /\ sb_m = 0
    /\ sb_m' = t
    /\ sb_pc' = [sb_pc EXCEPT ![t] = "check"]
    /\ UNCHANGED <<sb_n, sb_count, sb_trip, sb_cv, sb_loc, sb_calls, SBOthers>>

\* pthread_mutex_unlock(&b->m); return
SBUnlock(t) ==
    /\ sb_pc[t] = "unlock"
    /\ sb_m' = 0
    /\ sb_pc' = [sb_pc EXCEPT ![t] = "idle"]
    /\ UNCHANGED <<sb_n, sb_count, sb_trip, sb_cv, sb_loc, sb_calls, SBOthers>>

\* the steps of barrier_wait that the scheduler runs when they can run
SBStep(t) ==
    \/ SBLock(t)
    \/ SBArrive(t)
    \/ SBTrip(t)
    \/ SBCheck(t)
    \/ SBRelock(t)
    \/ SBUnlock(t)

SBNext ==
    \E t \in SBThreads :
        \/ SBCall(t)
        \/ SBStep(t)
        \/ SBSpurious(t)

\* a thread that can run a step runs; a thread that finds the mutex free
\* again and again gets it (it does not starve)
SBFair ==
    \A t \in 1..SBMaxThreads :
        /\ WF_vars(t \in SBThreads /\ SBStep(t))
        /\ SF_vars(t \in SBThreads /\ (SBLock(t) \/ SBRelock(t)))

SpecBarrierSync == SBInit /\ [][SBNext]_vars /\ SBFair

\* the number of barrier_wait calls thread t has returned from
SBReturned(t) == IF sb_pc[t] = "idle" THEN sb_calls[t] ELSE sb_calls[t] - 1

\* C32 (safety part): no thread has returned from its r-th call before all n
\* threads began their r-th call, and count is in 0..n-1 whenever no thread
\* holds the mutex.
C32_SBSafe ==
    /\ \A t, u \in SBThreads : SBReturned(t) <= sb_calls[u]
    /\ sb_m = 0 => sb_count \in 0..(sb_n - 1)

\* C32: MODE_SYNC barrier, n threads calling barrier_wait repeatedly: the
\* safety part holds in every state, and once all n threads have begun their
\* r-th call every one of them eventually returns from it (no wake-up is
\* lost, the barrier serves round after round).
C32_SBBarrier ==
    /\ []C32_SBSafe
    /\ \A r \in 1..SBMaxRounds :
          (\A t \in SBThreads : sb_calls[t] >= r)
              ~> (\A t \in SBThreads : SBReturned(t) >= r)

\* in the second round one thread has returned while another, woken by the
\* broadcast, has not yet taken the mutex again
C32_Witness ==
    /\ sb_n >= 2
    /\ \E t, u \in SBThreads :
          /\ SBReturned(t) = 2
          /\ sb_calls[u] = 2
          /\ sb_pc[u] = "relock"
          /\ sb_loc[u] # sb_trip

(***************************************************************************)
(* src/lab2/bitonic.c, MODE_ATOMIC: the sense-reversing barrier.  n        *)
(* threads call barrier_wait_local again and again, each with its own      *)
(* local_sense (0 at first).  A step is one atomic operation; the atomics  *)
(* are release / acquire operations on two variables, every load reads the *)
(* latest store in the one order of the steps.                             *)
(***************************************************************************)
\* the largest n a barrier is initialised with
ABMaxThreads == 3

\* barrier_wait_local calls each thread makes
ABMaxRounds == 3

ABThreads == 1..ab_n

\* what is not the barrier's
ABOthers == <<lab4vars, sbvars, btvars, mcvars, shvars>>

\* barrier_init(b, n); int local_sense = 0 in every worker
ABInit ==
    /\ FLIdle
    /\ BDIdle
    /\ CRIdle
    /\ RCIdle
    /\ SBIdle
    /\ BTIdle
    /\ MCIdle
    /\ SHIdle
    /\ ab_n \in 1..ABMaxThreads
    /\ ab_count = 0
    /\ ab_sense = 0
    /\ ab_pc = [t \in ABThreads |-> "idle"]
    /\ ab_ls = [t \in ABThreads |-> 0]
    /\ ab_local_sense = [t \in ABThreads |-> 0]
    /\ ab_calls = [t \in ABThreads |-> 0]

\* thread t calls barrier_wait_local(b, &local_sense): int ls = *local_sense
ABCall(t) ==
    /\ ab_pc[t] = "idle"
    /\ ab_calls[t] < ABMaxRounds
    /\ ab_calls' = [ab_calls EXCEPT ![t] = @ + 1]
    /\ ab_ls' = [ab_ls EXCEPT ![t] = ab_local_sense[t]]
    /\ ab_pc' = [ab_pc EXCEPT ![t] = "fetch_add"]
    /\ UNCHANGED <<ab_n, ab_count, ab_sense, ab_local_sense, ABOthers>>

\* if (atomic_fetch_add(&b->count, 1) == b->n - 1)
ABFetchAdd(t) ==
    /\ ab_pc[t] = "fetch_add"
    /\ ab_count' = ab_count + 1
    /\ ab_pc' = [ab_pc EXCEPT ![t] = IF ab_count = ab_n - 1 THEN "store_count" ELSE "spin"]
    /\ UNCHANGED <<ab_n, ab_sense, ab_ls, ab_local_sense, ab_calls, ABOthers>>

\* atomic_store(&b->count, 0)
ABStoreCount(t) ==
    /\ ab_pc[t] = "store_count"
    /\ ab_count' = 0
    /\ ab_pc' = [ab_pc EXCEPT ![t] = "store_sense"]
    /\ UNCHANGED <<ab_n, ab_sense, ab_ls, ab_local_sense, ab_calls, ABOthers>>

\* the last thread storing ls, not !ls: the sense is not reversed
ABStoreSense_same(t) ==
    /\ ab_pc[t] = "store_sense"
    /\ ab_sense' = ab_ls[t]
    /\ ab_pc' = [ab_pc EXCEPT ![t] = "flip"]
    /\ UNCHANGED <<ab_n, ab_count, ab_ls, ab_local_sense, ab_calls, ABOthers>>

\* atomic_store(&b->sense, !ls)
ABStoreSense(t) ==
    /\ ab_pc[t] = "store_sense"
    /\ ab_sense' = (IF ab_ls[t] = 0 THEN 1 ELSE 0)
    /\ ab_pc' = [ab_pc EXCEPT ![t] = "flip"]
    /\ UNCHANGED <<ab_n, ab_count, ab_ls, ab_local_sense, ab_calls, ABOthers>>

\* while (atomic_load(&b->sense) == ls) sched_yield(): the load that ends
\* the loop (a load that reads ls changes nothing)
ABSpin(t) ==
    /\ ab_pc[t] = "spin"
    /\ ab_sense # ab_ls[t]
    /\ ab_pc' = [ab_pc EXCEPT ![t] = "flip"]
    /\ UNCHANGED <<ab_n, ab_count, ab_sense, ab_ls, ab_local_sense, ab_calls, ABOthers>>

\* *local_sense = !ls; return
ABFlip(t) ==
    /\ ab_pc[t] = "flip"
    /\ ab_local_sense' = [ab_local_sense EXCEPT ![t] = IF ab_ls[t] = 0 THEN 1 ELSE 0]
    /\ ab_pc' = [ab_pc EXCEPT ![t] = "idle"]
    /\ UNCHANGED <<ab_n, ab_count, ab_sense, ab_ls, ab_calls, ABOthers>>

\* the steps of barrier_wait_local after the call began
ABStep(t) ==
    \/ ABFetchAdd(t)
    \/ ABStoreCount(t)
    \/ ABStoreSense(t)
    \/ ABSpin(t)
    \/ ABFlip(t)

ABNext ==
    \E t \in ABThreads :
        \/ ABCall(t)
        \/ ABStep(t)

\* every thread that can run a step is scheduled
ABFair == \A t \in 1..ABMaxThreads : WF_vars(t \in ABThreads /\ ABStep(t))

SpecBarrierAtomic == ABInit /\ [][ABNext]_vars /\ ABFair

\* the number of barrier_wait_local calls thread t has returned from
ABReturned(t) == IF ab_pc[t] = "idle" THEN ab_calls[t] ELSE ab_calls[t] - 1

\* the number of fetch-adds thread t has performed
ABArrived(t) == IF ab_pc[t] = "fetch_add" THEN ab_calls[t] - 1 ELSE ab_calls[t]

\* C33 (safety part): no thread has returned from its r-th call before all n
\* threads performed the fetch-add of their r-th call, and count is at most n.
C33_ABSafe ==
    /\ \A t, u \in ABThreads : ABReturned(t) <= ABArrived(u)
    /\ ab_count \in 0..ab_n

\* C33: MODE_ATOMIC barrier, n threads calling barrier_wait_local repeatedly,
\* local_sense 0 at first, any interleaving of the atomic operations: the
\* safety part holds in every state, and once all n threads have performed
\* the fetch-add of their r-th call every thread eventually returns from it.
C33_ABBarrier ==
    /\ []C33_ABSafe
    /\ \A r \in 1..ABMaxRounds :
          (\A t \in ABThreads : ABArrived(t) >= r)
              ~> (\A t \in ABThreads : ABReturned(t) >= r)

\* in the second round (sense 1 -> 0) the last thread has reset count and
\* reversed the sense while another thread is still in its loop
C33_Witness ==
    /\ ab_n >= 2
    /\ \E t, u \in ABThreads :
          /\ ab_calls[t] = 2
          /\ ab_pc[t] = "flip"
          /\ ab_ls[t] = 1
          /\ ab_sense = 0
          /\ ab_calls[u] = 2
          /\ ab_pc[u] = "spin"

(***************************************************************************)
(* src/lab2/bitonic.c: the parallel bitonic sort.  main pads the input to  *)
(* np2 = next_pow2(n) elements, caps nthreads at np2 and creates the       *)
(* workers; every worker runs the same k / j loops over its own range of   *)
(* indices and waits at the stage barrier after each j.  A step is one     *)
(* iteration of the loop over i (one compare_swap), or the worker's part   *)
(* of the barrier inside the mutex (MODE_SYNC).  Workers are numbered by   *)
(* their tid, from 0.                                                      *)
(***************************************************************************)
\* the elements are 0..BTMaxValue
BTMaxValue == 2

\* <<np2, nthreads>> of the runs: every thread count for 1, 2 and 4 elements;
\* for 8 elements three threads (ranges of 2, 2 and 4 indices)
BTRuns ==
    { <<1, 1>>, <<2, 1>>, <<2, 2>>, <<4, 1>>, <<4, 2>>, <<4, 3>>, <<4, 4>>, <<8, 3>> }

\* the arrays main may hand to the workers: every array over the values for
\* up to 4 elements, every array of zeros and ones for more
BTArrays(np2) ==
    IF np2 <= 4 THEN [0..(np2 - 1) -> 0..BTMaxValue] ELSE [0..(np2 - 1) -> {0, 1}]

BTWorkers == 0..(bt_nthreads - 1)

\* size_t chunk = np2 / nthreads; size_t start = tid * chunk
BTStart(np2, nthreads, tid) == tid * (np2 \div nthreads)

\* every worker's range running to np2: the ranges overlap
BTEnd_whole(np2, nthreads, tid) == np2

\* size_t end = (tid == nthreads - 1) ? np2 : start + chunk; if (end > np2) end = np2
BTEnd(np2, nthreads, tid) ==
    LET end == IF tid = nthreads - 1 THEN np2
               ELSE BTStart(np2, nthreads, tid) + (np2 \div nthreads)
    IN  IF end > np2 THEN np2 ELSE end

\* i ^ j for j a power of two
BTXor(i, j) == IF (i \div j) % 2 = 0 THEN i + j ELSE i - j

\* compare_swap that never swaps
compare_swap_never(a, i, l, ascend) == a

\* compare_swap(a, i, l, ascend): the array afterwards
compare_swap(a, i, l, ascend) ==
    IF (a[i] > a[l]) = ascend
    THEN [a EXCEPT ![i] = a[l], ![l] = a[i]]
    ELSE a

\* what is not the sort's
BTOthers == <<lab4vars, sbvars, abvars, mcvars, shvars>>

\* the locals of a worker entering the loops: k = 2, j = k >> 1, i = start
BTEnter(np2, nthreads, tid) ==
    [k |-> 2, j |-> 1, i |-> BTStart(np2, nthreads, tid), trip |-> 0]

\* main up to pthread_create, and the workers released by the start barrier
BTInit ==
    /\ FLIdle
    /\ BDIdle
    /\ CRIdle
    /\ RCIdle
    /\ SBIdle
    /\ ABIdle
    /\ MCIdle
    /\ SHIdle
    /\ \E run \in BTRuns :
          /\ bt_np2 = run[1]
          /\ bt_nthreads = run[2]
          /\ bt_a \in BTArrays(run[1])
          /\ bt_pc = [t \in 0..(run[2] - 1) |-> IF 2 <= run[1] THEN "loop" ELSE "done"]
          /\ bt_loc = [t \in 0..(run[2] - 1) |-> BTEnter(run[1], run[2], t)]
          /\ bt_waits = [t \in 0..(run[2] - 1) |-> 0]
          /\ bt_acc = [x \in 0..(run[1] - 1) |-> {}]
    /\ bt_a0 = bt_a
    /\ bt_count = 0
    /\ bt_trip = 0

\* one iteration of for (i = start; i < end; i++): l = i ^ j; if (l > i)
\* compare_swap(a, i, l, (i & k) == 0)
BTCompare(t) ==
    /\ bt_pc[t] = "loop"
    /\ LET i == bt_loc[t].i
           l == BTXor(i, bt_loc[t].j)
           ascend == ((i \div bt_loc[t].k) % 2 = 0)
       IN  /\ IF l > i
              THEN /\ bt_a' = compare_swap(bt_a, i, l, ascend)
                   /\ bt_acc' = [bt_acc EXCEPT ![i] = @ \cup {t}, ![l] = @ \cup {t}]
              ELSE UNCHANGED <<bt_a, bt_acc>>
           /\ bt_loc' = [bt_loc EXCEPT ![t].i = i + 1]
           /\ bt_pc' = [bt_pc EXCEPT ![t] =
                          IF i + 1 < BTEnd(bt_np2, bt_nthreads, t) THEN "loop" ELSE "barrier"]
    /\ UNCHANGED <<bt_np2, bt_nthreads, bt_a0, bt_waits, bt_count, bt_trip, BTOthers>>

\* the loop headers after a barrier wait: j >>= 1; when j reaches 0, k <<= 1
\* and j = k >> 1; the worker returns when k > np2
BTAdvance(np2, nthreads, tid, loc) ==
    LET j == loc.j \div 2
        k == IF j > 0 THEN loc.k ELSE 2 * loc.k
    IN  [k |-> k, j |-> IF j > 0 THEN j ELSE loc.k,
         i |-> BTStart(np2, nthreads, tid), trip |-> loc.trip]

\* barrier_wait(stage_barrier) up to its test: the last worker to arrive
\* trips the barrier and returns, the others save trip and wait
BTArrive(t) ==
    /\ bt_pc[t] = "barrier"
    /\ IF bt_count + 1 = bt_nthreads
       THEN LET loc == BTAdvance(bt_np2, bt_nthreads, t, bt_loc[t])
            IN  /\ bt_count' = 0
                /\ bt_trip' = bt_trip + 1
                /\ bt_acc' = [x \in DOMAIN bt_acc |-> {}]
                /\ bt_loc' = [bt_loc EXCEPT ![t] = loc]
                /\ bt_waits' = [bt_waits EXCEPT ![t] = @ + 1]
                /\ bt_pc' = [bt_pc EXCEPT ![t] = IF loc.k <= bt_np2 THEN "loop" ELSE "done"]
       ELSE /\ bt_count' = bt_count + 1
            /\ bt_loc' = [bt_loc EXCEPT ![t].trip = bt_trip]
            /\ bt_pc' = [bt_pc EXCEPT ![t] = "wait"]
            /\ UNCHANGED <<bt_trip, bt_acc, bt_waits>>
    /\ UNCHANGED <<bt_np2, bt_nthreads, bt_a, bt_a0, BTOthers>>

\* barrier_wait(stage_barrier), a waiter that finds trip changed returns
BTPass(t) ==
    /\ bt_pc[t] = "wait"
    /\ bt_trip # bt_loc[t].trip
    /\ LET loc == BTAdvance(bt_np2, bt_nthreads, t, bt_loc[t])
       IN  /\ bt_loc' = [bt_loc EXCEPT ![t] = loc]
           /\ bt_pc' = [bt_pc EXCEPT ![t] = IF loc.k <= bt_np2 THEN "loop" ELSE "done"]
    /\ bt_waits' = [bt_waits EXCEPT ![t] = @ + 1]
    /\ UNCHANGED <<bt_np2, bt_nthreads, bt_a, bt_a0, bt_count, bt_trip, bt_acc, BTOthers>>

BTNext ==
    \E t \in BTWorkers :
        \/ BTCompare(t)
        \/ BTArrive(t)
        \/ BTPass(t)

SpecBitonic == BTInit /\ [][BTNext]_vars

\* main after pthread_join: every worker has returned
BTJoined == \A t \in BTWorkers : bt_pc[t] = "done"

\* the number of indices of a that hold v
BTCountOf(a, v) == Cardinality({x \in DOMAIN a : a[x] = v})

\* C34: for every power-of-two length and every thread count 1..np2, the ones
\* that do not divide np2 included, under any interleaving: once all workers
\* have returned, a[0..np2) is ascending and a permutation of what it held.
C34_BTSorted ==
    BTJoined =>
        /\ \A x \in 1..(bt_np2 - 1) : bt_a[x - 1] <= bt_a[x]
        /\ \A v \in 0..BTMaxValue : BTCountOf(bt_a, v) = BTCountOf(bt_a0, v)

\* eight unsorted elements were sorted by three workers, ranges 2, 2 and 4
C34_Witness ==
    /\ BTJoined
    /\ bt_np2 = 8
    /\ bt_nthreads = 3
    /\ bt_a # bt_a0
    /\ bt_a0[0] = 1
    /\ bt_a0[7] = 0

\* the number of stages: one for every j of every k
BTStages(np2) == Cardinality({ kj \in (1..np2) \X (1..np2) :
                                /\ \E e \in 1..np2 : kj[1] = pow2(e) /\ kj[1] <= np2
                                /\ \E e \in 0..np2 : kj[2] = pow2(e) /\ kj[2] < kj[1] })

\* C35: between two consecutive stage barriers every index of a is read or
\* written by at most one worker, the one whose range holds the lower index
\* of the compared pair, for every thread count 1..np2; all workers make the
\* same number of barrier waits, and no worker is left blocked at a barrier.
C35_BTRaceFree ==
    /\ \A x \in DOMAIN bt_acc : \A t \in bt_acc[x] :
          LET y  == BTXor(x, bt_loc[t].j)
              lo == IF x < y THEN x ELSE y
          IN  /\ bt_acc[x] = {t}
              /\ BTStart(bt_np2, bt_nthreads, t) <= lo
              /\ lo < BTEnd(bt_np2, bt_nthreads, t)
    /\ \A t \in BTWorkers :
          bt_pc[t] = "done" => bt_waits[t] = BTStages(bt_np2)
    /\ \A t, u \in BTWorkers : bt_waits[t] - bt_waits[u] \in {-1, 0, 1}
    /\ ~BTJoined => ENABLED BTNext

\* with three workers on four elements (chunk 1, the last range 2 long) one
\* worker has compared its pair and another worker's pair is still to come
C35_Witness ==
    /\ bt_np2 = 4
    /\ bt_nthreads = 3
    /\ \E x, y \in DOMAIN bt_acc : \E t \in BTWorkers :
          /\ bt_acc[x] = {2}
          /\ bt_acc[y] = {t}
          /\ t # 2
          /\ bt_trip >= 1

(***************************************************************************)
(* src/lab2/main.c: the Monte-Carlo simulation.  main takes a slot of the  *)
(* custom semaphore and creates a thread, max_threads times, then joins    *)
(* the threads in order and posts the semaphore after each join.  A thread *)
(* runs its simulations (the outcome of one simulation is whatever rand_r  *)
(* gives) and adds its counts to the globals, under stats_mutex or with    *)
(* atomic_fetch_add.  A step is one statement; x += y on a plain long is a *)
(* load and a store.                                                       *)
(***************************************************************************)
\* the largest -t
MCMaxThreads == 3

\* the largest -r
MCMaxRounds == 4

MCThreads == 0..(mc_max_threads - 1)

\* args->simulations_per_thread of thread i
MCSimulationsPerThread(total_rounds, max_threads, i) ==
    IF i = max_threads - 1
    THEN (total_rounds \div max_threads) + (total_rounds % max_threads)
    ELSE total_rounds \div max_threads

\* a thread main has not created yet
MCNotCreated == [pc |-> "none", i |-> 0, sims |-> 0, local_matches |-> 0, tmp |-> 0]

\* what is not the program's
MCOthers == <<lab4vars, sbvars, abvars, btvars, shvars>>

\* main up to sem_init_custom(&thread_limit_sem, max_threads)
MCInit ==
    /\ FLIdle
    /\ BDIdle
    /\ CRIdle
    /\ RCIdle
    /\ SBIdle
    /\ ABIdle
    /\ BTIdle
    /\ SHIdle
    /\ mc_build \in {"mutex", "atomic"}
    /\ mc_total_rounds \in 1..MCMaxRounds
    /\ mc_max_threads \in 1..MCMaxThreads
    /\ mc_total_matches = 0
    /\ mc_total_simulations = 0
    /\ mc_stats_mutex = -1
    /\ mc_sem = mc_max_threads
    /\ mc_main = [pc |-> "sem_wait", i |-> 0]
    /\ mc_thr = [t \in 0..(mc_max_threads - 1) |-> MCNotCreated]

\* main: sem_wait_custom(&thread_limit_sem) in the creation loop (main is the
\* only thread that uses the semaphore; with count == 0 it would block)
MCSemWait ==
    /\ mc_main.pc = "sem_wait"
    /\ mc_sem # 0
    /\ mc_sem' = mc_sem - 1
    /\ mc_main' = [mc_main EXCEPT !.pc = "create"]
    /\ UNCHANGED <<mc_build, mc_total_rounds, mc_max_threads, mc_total_matches,
                   mc_total_simulations, mc_stats_mutex, mc_thr, MCOthers>>

\* main: malloc of the arguments and a successful pthread_create; i++
MCCreate ==
    /\ mc_main.pc = "create"
    /\ mc_thr' = [mc_thr EXCEPT ![mc_main.i] =
                    [pc |-> "simulate", i |-> 0,
                     sims |-> MCSimulationsPerThread(mc_total_rounds, mc_max_threads, mc_main.i),
                     local_matches |-> 0, tmp |-> 0]]
    /\ mc_main' = IF mc_main.i + 1 < mc_max_threads
                  THEN [pc |-> "sem_wait", i |-> mc_main.i + 1]
                  ELSE [pc |-> "join", i |-> 0]
    /\ UNCHANGED <<mc_build, mc_total_rounds, mc_max_threads, mc_total_matches,
                   mc_total_simulations, mc_stats_mutex, mc_sem, MCOthers>>

\* main: pthread_create fails: sem_post_custom and return 1 (the process,
\* and every thread with it, ends)
MCCreateFails ==
    /\ mc_main.pc = "create"
    /\ mc_sem' = mc_sem + 1
    /\ mc_main' = [mc_main EXCEPT !.pc = "failed"]
    /\ UNCHANGED <<mc_build, mc_total_rounds, mc_max_threads, mc_total_matches,
                   mc_total_simulations, mc_stats_mutex, mc_thr, MCOthers>>

\* main: pthread_join(threads[i]) returns, sem_post_custom; i++
MCJoin ==
    /\ mc_main.pc = "join"
    /\ mc_thr[mc_main.i].pc = "done"
    /\ mc_sem' = mc_sem + 1
    /\ mc_main' = IF mc_main.i + 1 < mc_max_threads
                  THEN [mc_main EXCEPT !.i = @ + 1]
                  ELSE [pc |-> "joined", i |-> mc_max_threads]
    /\ UNCHANGED <<mc_build, mc_total_rounds, mc_max_threads, mc_total_matches,
                   mc_total_simulations, mc_stats_mutex, mc_thr, MCOthers>>

\* a step of thread t leaves main and the constants alone
MCThreadSame ==
    UNCHANGED <<mc_build, mc_total_rounds, mc_max_threads, mc_sem, mc_main, MCOthers>>

\* thread t can run: it was created and the process has not ended
MCRuns(t, pc) == mc_thr[t].pc = pc /\ mc_main.pc # "failed"

\* one iteration of the simulation loop: simulate_once returns 0 or 1
MCSimulate(t) ==
    /\ MCRuns(t, "simulate")
    /\ IF mc_thr[t].i < mc_thr[t].sims
       THEN \E match \in {0, 1} :
                mc_thr' = [mc_thr EXCEPT ![t].i = @ + 1, ![t].local_matches = @ + match]
       ELSE mc_thr' = [mc_thr EXCEPT ![t].pc =
                         IF mc_build = "atomic" THEN "add_matches" ELSE "lock"]
    /\ UNCHANGED <<mc_total_matches, mc_total_simulations, mc_stats_mutex>>
    /\ MCThreadSame

\* atomic_fetch_add(&total_matches, local_matches)
MCFetchAddMatches(t) ==
    /\ MCRuns(t, "add_matches")
    /\ mc_total_matches' = mc_total_matches + mc_thr[t].local_matches
    /\ mc_thr' = [mc_thr EXCEPT ![t].pc = "add_simulations"]
    /\ UNCHANGED <<mc_total_simulations, mc_stats_mutex>>
    /\ MCThreadSame

\* atomic_fetch_add(&total_simulations, args->simulations_per_thread); return
MCFetchAddSimulations(t) ==
    /\ MCRuns(t, "add_simulations")
    /\ mc_total_simulations' = mc_total_simulations + mc_thr[t].sims
    /\ mc_thr' = [mc_thr EXCEPT ![t].pc = "done"]
    /\ UNCHANGED <<mc_total_matches, mc_stats_mutex>>
    /\ MCThreadSame

\* the update of the totals entered without waiting for the mutex
MCLock_not_waiting(t) ==
    /\ MCRuns(t, "lock")
    /\ mc_stats_mutex' = t
    /\ mc_thr' = [mc_thr EXCEPT ![t].pc = "load_matches"]
    /\ UNCHANGED <<mc_total_matches, mc_total_simulations>>
    /\ MCThreadSame

\* pthread_mutex_lock(&stats_mutex)
MCLock(t) ==
    /\ MCRuns(t, "lock")
    /\ mc_stats_mutex = -1
    /\ mc_stats_mutex' = t
    /\ mc_thr' = [mc_thr EXCEPT ![t].pc = "load_matches"]
    /\ UNCHANGED <<mc_total_matches, mc_total_simulations>>
    /\ MCThreadSame

\* total_matches += local_matches: the load
MCLoadMatches(t) ==
    /\ MCRuns(t, "load_matches")
    /\ mc_thr' = [mc_thr EXCEPT ![t].tmp = mc_total_matches, ![t].pc = "store_matches"]
    /\ UNCHANGED <<mc_total_matches, mc_total_simulations, mc_stats_mutex>>
    /\ MCThreadSame

\* total_matches += local_matches: the store
MCStoreMatches(t) ==
    /\ MCRuns(t, "store_matches")
    /\ mc_total_matches' = mc_thr[t].tmp + mc_thr[t].local_matches
    /\ mc_thr' = [mc_thr EXCEPT ![t].pc = "load_simulations"]
    /\ UNCHANGED <<mc_total_simulations, mc_stats_mutex>>
    /\ MCThreadSame

\* total_simulations += args->simulations_per_thread: the load
MCLoadSimulations(t) ==
    /\ MCRuns(t, "load_simulations")
    /\ mc_thr' = [mc_thr EXCEPT ![t].tmp = mc_total_simulations, ![t].pc = "store_simulations"]
    /\ UNCHANGED <<mc_total_matches, mc_total_simulations, mc_stats_mutex>>
    /\ MCThreadSame

\* total_simulations += args->simulations_per_thread: the store
MCStoreSimulations(t) ==
    /\ MCRuns(t, "store_simulations")
    /\ mc_total_simulations' = mc_thr[t].tmp + mc_thr[t].sims
    /\ mc_thr' = [mc_thr EXCEPT ![t].pc = "unlock"]
    /\ UNCHANGED <<mc_total_matches, mc_stats_mutex>>
    /\ MCThreadSame

\* pthread_mutex_unlock(&stats_mutex); return
MCUnlock(t) ==
    /\ MCRuns(t, "unlock")
    /\ mc_stats_mutex' = -1
    /\ mc_thr' = [mc_thr EXCEPT ![t].pc = "done"]
    /\ UNCHANGED <<mc_total_matches, mc_total_simulations>>
    /\ MCThreadSame

MCNext ==
    \/ MCSemWait
    \/ MCCreate
    \/ MCCreateFails
    \/ MCJoin
    \/ \E t \in MCThreads :
          \/ MCSimulate(t)
          \/ MCFetchAddMatches(t)
          \/ MCFetchAddSimulations(t)
          \/ MCLock(t)
          \/ MCLoadMatches(t)
          \/ MCStoreMatches(t)
          \/ MCLoadSimulations(t)
          \/ MCStoreSimulations(t)
          \/ MCUnlock(t)

SpecMonteCarlo == MCInit /\ [][MCNext]_vars

\* C36: when all max_threads threads were created, after main has joined them
\* total_simulations = total_rounds and 0 <= total_matches <=
\* total_simulations, under any interleaving of the counter updates, in the
\* mutex and in the atomic build; the semaphore's count is in 0..max_threads
\* throughout.
C36_MCTotals ==
    /\ mc_main.pc = "joined" =>
          /\ mc_total_simulations = mc_total_rounds
          /\ 0 <= mc_total_matches
          /\ mc_total_matches <= mc_total_simulations
    /\ mc_sem \in 0..mc_max_threads

\* main has joined two threads of the mutex build that shared three rounds
\* unevenly (1 and 2) and both found matches
C36_Witness ==
    /\ mc_main.pc = "joined"
    /\ mc_build = "mutex"
    /\ mc_max_threads = 2
    /\ mc_total_rounds = 3
    /\ mc_thr[0].local_matches = 1
    /\ mc_thr[1].local_matches = 1
    /\ mc_total_matches = 2
    /\ mc_sem = 2

\* the same in the atomic build
C36_WitnessAtomic ==
    /\ mc_main.pc = "joined"
    /\ mc_build = "atomic"
    /\ mc_max_threads = 2
    /\ mc_total_rounds = 3
    /\ mc_total_matches = 2

(***************************************************************************)
(* src/lab3/sum-server-shm.c and sum-client-shm.c: the shared-memory       *)
(* pipeline, from the fork on.  The server reads its stdin chunk by chunk  *)
(* (read returns any number of the bytes that are there, up to the room in *)
(* inbuf), publishes each chunk in the shared data and waits for           *)
(* processed; at end of input it publishes eof.  The client waits for      *)
(* data_ready, appends the chunk to its own inbuf, posts processed and     *)
(* handles the complete lines; an empty line makes it exit.  A step is one *)
(* statement of either main; the handling of the lines, which touches only *)
(* the client's buffer and the output file, is one step.  A byte is "n"    *)
(* (a newline) or "d" (any other byte); the file receives one line per     *)
(* input line, recorded by the length of the input line.  No system call   *)
(* fails or is interrupted, and the semaphores are new (value 0).          *)
(***************************************************************************)
\* sizeof(inbuf) = sizeof(data->buf) in the model.  The programs' BUF_SIZE is
\* 8192; every test of the code compares against sizeof(inbuf), so a small
\* buffer goes through the same cases with enumerable inputs.
SHBufSize == 3

\* the longest input on the server's stdin (after the file name line)
SHMaxInput == 6

RECURSIVE SHInputs(_)
\* the byte sequences of length n
SHInputs(n) ==
    IF n = 0 THEN { <<>> }
    ELSE { <<b>> \o s : b \in {"d", "n"}, s \in SHInputs(n - 1) }

SHMin(a, b) == IF a < b THEN a ELSE b

\* what is not the pipeline's
SHOthers == <<lab4vars, sbvars, abvars, btvars, mcvars>>

\* the server after fork (in_len = 0), the client before its loop, the
\* semaphores as sem_open(..., O_CREAT, 0600, 0) creates them, the shared
\* memory as ftruncate leaves it
SHInit ==
    /\ FLIdle
    /\ BDIdle
    /\ CRIdle
    /\ RCIdle
    /\ SBIdle
    /\ ABIdle
    /\ BTIdle
    /\ MCIdle
    /\ \E n \in 0..SHMaxInput : sh_stdin \in SHInputs(n)
    /\ sh_stdin0 = sh_stdin
    /\ sh_srv = [pc |-> "read", inbuf |-> <<>>]
    /\ sh_data = [buf |-> <<>>, len |-> 0, eof |-> 0]
    /\ sh_data_ready = 0
    /\ sh_processed = 0
    /\ sh_cli = [pc |-> "wait", inbuf |-> <<>>, len |-> 0, to_copy |-> 0]
    /\ sh_out = <<>>

\* a step of the server leaves the client's locals and the file alone
SHSrvSame == UNCHANGED <<sh_stdin0, sh_cli, sh_out, SHOthers>>

\* a step of the client leaves the server's locals and stdin alone
SHCliSame == UNCHANGED <<sh_stdin0, sh_stdin, sh_srv, SHOthers>>

\* server: r = read(STDIN_FILENO, inbuf + in_len, sizeof(inbuf) - in_len);
\* r == 0 is the end of the input
SHSrvRead ==
    /\ sh_srv.pc = "read"
    /\ IF Len(sh_srv.inbuf) < SHBufSize
       THEN IF sh_stdin = <<>>
            THEN /\ sh_srv' = [sh_srv EXCEPT !.pc = "eof_len"]
                 /\ UNCHANGED sh_stdin
            ELSE \E r \in 1..SHMin(Len(sh_stdin), SHBufSize - Len(sh_srv.inbuf)) :
                    /\ sh_srv' = [pc |-> "write_len",
                                  inbuf |-> sh_srv.inbuf \o SubSeq(sh_stdin, 1, r)]
                    /\ sh_stdin' = SubSeq(sh_stdin, r + 1, Len(sh_stdin))
       ELSE /\ sh_srv' = [sh_srv EXCEPT !.pc = "write_len"]
            /\ UNCHANGED sh_stdin
    /\ UNCHANGED <<sh_data, sh_data_ready, sh_processed>>
    /\ SHSrvSame

\* server: data->len = in_len
SHSrvWriteLen ==
    /\ sh_srv.pc = "write_len"
    /\ sh_data' = [sh_data EXCEPT !.len = Len(sh_srv.inbuf)]
    /\ sh_srv' = [sh_srv EXCEPT !.pc = "write_eof"]
    /\ UNCHANGED <<sh_stdin, sh_data_ready, sh_processed>>
    /\ SHSrvSame

\* server: data->eof = 0
SHSrvWriteEof ==
    /\ sh_srv.pc = "write_eof"
    /\ sh_data' = [sh_data EXCEPT !.eof = 0]
    /\ sh_srv' = [sh_srv EXCEPT !.pc = "memcpy"]
    /\ UNCHANGED <<sh_stdin, sh_data_ready, sh_processed>>
    /\ SHSrvSame

\* server: memcpy(data->buf, inbuf, in_len); in_len = 0
SHSrvMemcpy ==
    /\ sh_srv.pc = "memcpy"
    /\ sh_data' = [sh_data EXCEPT !.buf =
                     sh_srv.inbuf \o SubSeq(@, Len(sh_srv.inbuf) + 1, Len(@))]
    /\ sh_srv' = [pc |-> "post", inbuf |-> <<>>]
    /\ UNCHANGED <<sh_stdin, sh_data_ready, sh_processed>>
    /\ SHSrvSame

\* server: sem_post(sem_data_ready)
SHSrvPost ==
    /\ sh_srv.pc = "post"
    /\ sh_data_ready' = sh_data_ready + 1
    /\ sh_srv' = [sh_srv EXCEPT !.pc = "wait_processed"]
    /\ UNCHANGED <<sh_stdin, sh_data, sh_processed>>
    /\ SHSrvSame

\* the server going on without waiting for processed
SHSrvWaitProcessed_not_waiting ==
    /\ sh_srv.pc = "wait_processed"
    /\ sh_processed' = IF sh_processed > 0 THEN sh_processed - 1 ELSE 0
    /\ sh_srv' = [sh_srv EXCEPT !.pc = "read"]
    /\ UNCHANGED <<sh_stdin, sh_data, sh_data_ready>>
    /\ SHSrvSame

\* server: sem_wait(sem_processed) returns
SHSrvWaitProcessed ==
    /\ sh_srv.pc = "wait_processed"
    /\ sh_processed > 0
    /\ sh_processed' = sh_processed - 1
    /\ sh_srv' = [sh_srv EXCEPT !.pc = "read"]
    /\ UNCHANGED <<sh_stdin, sh_data, sh_data_ready>>
    /\ SHSrvSame

\* server at end of input: data->len = 0
SHSrvEofLen ==
    /\ sh_srv.pc = "eof_len"
    /\ sh_data' = [sh_data EXCEPT !.len = 0]
    /\ sh_srv' = [sh_srv EXCEPT !.pc = "eof_flag"]
    /\ UNCHANGED <<sh_stdin, sh_data_ready, sh_processed>>
    /\ SHSrvSame

\* server at end of input: data->eof = 1
SHSrvEofFlag ==
    /\ sh_srv.pc = "eof_flag"
    /\ sh_data' = [sh_data EXCEPT !.eof = 1]
    /\ sh_srv' = [sh_srv EXCEPT !.pc = "eof_post"]
    /\ UNCHANGED <<sh_stdin, sh_data_ready, sh_processed>>
    /\ SHSrvSame

\* server at end of input: sem_post(sem_data_ready); break
SHSrvEofPost ==
    /\ sh_srv.pc = "eof_post"
    /\ sh_data_ready' = sh_data_ready + 1
    /\ sh_srv' = [sh_srv EXCEPT !.pc = "waitpid"]
    /\ UNCHANGED <<sh_stdin, sh_data, sh_processed>>
    /\ SHSrvSame

\* server: waitpid(child) returns once the client has exited; munmap, the
\* unlinks and return
SHSrvWaitpid ==
    /\ sh_srv.pc = "waitpid"
    /\ sh_cli.pc = "exited"
    /\ sh_srv' = [sh_srv EXCEPT !.pc = "exited"]
    /\ UNCHANGED <<sh_stdin, sh_data, sh_data_ready, sh_processed>>
    /\ SHSrvSame

\* client: sem_wait(sem_data_ready) returns
SHCliWait ==
    /\ sh_cli.pc = "wait"
    /\ sh_data_ready > 0
    /\ sh_data_ready' = sh_data_ready - 1
    /\ sh_cli' = [sh_cli EXCEPT !.pc = "check_eof"]
    /\ UNCHANGED <<sh_data, sh_processed, sh_out>>
    /\ SHCliSame

\* client: if (data->eof) break
SHCliCheckEof ==
    /\ sh_cli.pc = "check_eof"
    /\ sh_cli' = [sh_cli EXCEPT !.pc = IF sh_data.eof # 0 THEN "close" ELSE "copy"]
    /\ UNCHANGED <<sh_data, sh_data_ready, sh_processed, sh_out>>
    /\ SHCliSame

\* client: to_copy = data->len, cut to the room left in inbuf;
\* memcpy(inbuf + in_len, data->buf, to_copy); in_len += to_copy
SHCliCopy ==
    /\ sh_cli.pc = "copy"
    /\ LET room    == SHBufSize - Len(sh_cli.inbuf)
           to_copy == IF Len(sh_cli.inbuf) + sh_data.len > SHBufSize
                      THEN room ELSE sh_data.len
       IN  sh_cli' = [pc |-> "post",
                      inbuf |-> sh_cli.inbuf \o SubSeq(sh_data.buf, 1, to_copy),
                      len |-> sh_data.len, to_copy |-> to_copy]
    /\ UNCHANGED <<sh_data, sh_data_ready, sh_processed, sh_out>>
    /\ SHCliSame

\* client: sem_post(sem_processed)
SHCliPost ==
    /\ sh_cli.pc = "post"
    /\ sh_processed' = sh_processed + 1
    /\ sh_cli' = [sh_cli EXCEPT !.pc = "process"]
    /\ UNCHANGED <<sh_data, sh_data_ready, sh_out>>
    /\ SHCliSame

RECURSIVE SHLines(_, _, _, _)
\* the loop over inbuf[i] from index i on (indices from 1), start being the
\* first byte of the line in progress: the lines written, whether an empty
\* line ended the program, and start at the end
SHLines(inbuf, i, start, out) ==
    IF i > Len(inbuf) THEN [exit |-> FALSE, start |-> start, out |-> out]
    ELSE IF inbuf[i] # "n" THEN SHLines(inbuf, i + 1, start, out)
    ELSE IF i - start = 0 THEN [exit |-> TRUE, start |-> start, out |-> out]
    ELSE SHLines(inbuf, i + 1, i + 1, Append(out, i - start))

\* client: the complete lines of inbuf: a sum is written for each, an empty
\* line ends the program with _exit; then the rest is moved to the front of
\* inbuf, or a full buffer without a newline is dropped
SHCliProcess ==
    /\ sh_cli.pc = "process"
    /\ LET r == SHLines(sh_cli.inbuf, 1, 1, sh_out)
       IN  /\ sh_out' = r.out
           /\ sh_cli' =
                IF r.exit THEN [sh_cli EXCEPT !.pc = "exited"]
                ELSE IF r.start > 1
                THEN [sh_cli EXCEPT !.pc = "wait",
                         !.inbuf = SubSeq(sh_cli.inbuf, r.start, Len(sh_cli.inbuf))]
                ELSE IF Len(sh_cli.inbuf) = SHBufSize
                THEN [sh_cli EXCEPT !.pc = "wait", !.inbuf = <<>>]
                ELSE [sh_cli EXCEPT !.pc = "wait"]
    /\ UNCHANGED <<sh_data, sh_data_ready, sh_processed>>
    /\ SHCliSame

\* client after the loop: close, munmap, sem_close, return
SHCliClose ==
    /\ sh_cli.pc = "close"
    /\ sh_cli' = [sh_cli EXCEPT !.pc = "exited"]
    /\ UNCHANGED <<sh_data, sh_data_ready, sh_processed, sh_out>>
    /\ SHCliSame

SHSrvStep ==
    \/ SHSrvRead
    \/ SHSrvWriteLen
    \/ SHSrvWriteEof
    \/ SHSrvMemcpy
    \/ SHSrvPost
    \/ SHSrvWaitProcessed
    \/ SHSrvEofLen
    \/ SHSrvEofFlag
    \/ SHSrvEofPost
    \/ SHSrvWaitpid

SHCliStep ==
    \/ SHCliWait
    \/ SHCliCheckEof
    \/ SHCliCopy
    \/ SHCliPost
    \/ SHCliProcess
    \/ SHCliClose

SHNext == SHSrvStep \/ SHCliStep

\* both processes run whenever they are not blocked
SHFair == WF_vars(SHSrvStep) /\ WF_vars(SHCliStep)

SpecShm == SHInit /\ [][SHNext]_vars /\ SHFair

\* the client is between the return of sem_wait(data_ready) and its
\* sem_post(processed)
SHCliInRegion == sh_cli.pc \in {"check_eof", "copy", "post"}

\* the server's next statement stores to data->len, data->eof or data->buf
SHSrvWrites == sh_srv.pc \in {"write_len", "write_eof", "memcpy", "eof_len", "eof_flag"}

\* C37: with new semaphores and no sem_wait interrupted, the server never
\* writes data->buf, data->len or data->eof while the client is between
\* returning from sem_wait(data_ready) and calling sem_post(processed), and
\* neither semaphore's value exceeds 1.
C37_SHExclusion ==
    /\ ~(SHCliInRegion /\ SHSrvWrites)
    /\ sh_data_ready <= 1
    /\ sh_processed <= 1

\* the client is copying the second chunk while the server waits for
\* processed
C37_Witness ==
    /\ sh_cli.pc = "copy"
    /\ sh_cli.len > 0
    /\ sh_data.len > 0
    /\ sh_srv.pc = "wait_processed"
    /\ sh_out # <<>>

\* both programs have exited
SHBothExited == sh_srv.pc = "exited" /\ sh_cli.pc = "exited"

\* C38: for every finite input on the server's stdin, an empty line followed
\* by further data included, both programs eventually exit: the server is
\* not left blocked in sem_wait(processed) after the client has exited.
C38_SHTerminates == <>SHBothExited

\* the input holds an empty line: a newline first, or right after a newline
SHHasEmptyLine(input) ==
    \E i \in 1..Len(input) :
        /\ input[i] = "n"
        /\ (i = 1 \/ input[i - 1] = "n")

\* the input holds n bytes in a row without a newline
SHHasRun(input, n) ==
    \E i \in 1..Len(input) :
        /\ i + n - 1 <= Len(input)
        /\ \A j \in i..(i + n - 1) : input[j] = "d"

\* C38 on the inputs without an empty line whose lines hold fewer than
\* SHBufSize - 1 bytes before the newline (the client drops and cuts nothing)
C38_WithoutEmptyLine ==
    (~SHHasEmptyLine(sh_stdin0) /\ ~SHHasRun(sh_stdin0, SHBufSize - 1)) => <>SHBothExited

\* the state the server is left in: the client has exited on an empty line,
\* the server has published the next chunk and waits for processed
C38_ServerStuck ==
    /\ sh_cli.pc = "exited"
    /\ sh_srv.pc = "wait_processed"
    /\ sh_processed = 0

\* C39: for every chunk the server publishes (data->len bytes, up to the
\* buffer size) the client appends all data->len bytes to its buffer before
\* it posts processed, however many bytes of an unfinished line it holds.
C39_SHNoLoss ==
    sh_cli.pc = "post" => sh_cli.to_copy = sh_cli.len

\* C39 on the chunks that fit in what is left of the client's buffer
C39_WhenItFits ==
    (sh_cli.pc = "post" /\ Len(sh_cli.inbuf) - sh_cli.to_copy + sh_cli.len <= SHBufSize)
        => sh_cli.to_copy = sh_cli.len

====
